---- MODULE Spec2Model ----
(***************************************************************************)
(* A model of fax-ui: the ephemeral media store (memory map guarded by     *)
(* memMu, disk directory, periodic sweep) and the signed-cookie session    *)
(* layer in front of the protected routes.                                 *)
(*                                                                         *)
(* Strings that the code parses (paths, cookie values, redirect targets)   *)
(* are sequences of atoms: "/", "." and " " are atoms of their own, every  *)
(* other atom is a run of characters that holds none of the three.         *)
(* Strings that the code only stores and compares are TLA+ strings.        *)
(***************************************************************************)
EXTENDS Integers, Sequences, FiniteSets, TLC

VARIABLES
    app,            \* the App struct: configuration, fixed after NewApp
    cwd,            \* the process's working directory (relative paths resolve here)
    cleanupOn,      \* whether NewApp started the startFileCleanup goroutine
    now,            \* time.Now(), in minutes
    uploadedFiles,  \* App.uploadedFiles: token -> uploadedFile
    memMu,          \* App.memMu: [w: the writer holding it, r: the readers holding it]
    disk,           \* the file system: absolute path -> bytes
    fax,            \* the POST /fax request in flight (requireAuth(handleFax))
    get,            \* the GET /media/ requests in flight: getter -> its position and locals
    sweep,          \* the cleanup goroutine: its position and its timestamp
    stores,         \* history: what each completed store returned
    jar,            \* the client: the browser's cookies, and its copy of the last
                    \* session credential
    out             \* the response written last, by whichever request wrote it

vars == <<app, cwd, cleanupOn, now, uploadedFiles, memMu, disk, fax, get, sweep,
          stores, jar, out>>

----------------------------------------------------------------------------
(* Bounds of the model. *)

\* how many stores (uploads that reach a backend) a run performs
MaxStores == 2

\* how many times the clock advances
MaxTicks == 2

\* longest token part of a requested /media/ path, in atoms
MaxTokenLen == 5

----------------------------------------------------------------------------
(* Strings as sequences of atoms. *)

None == <<"<none>">>

HasPrefix(s, p) == Len(s) >= Len(p) /\ SubSeq(s, 1, Len(p)) = p

TrimPrefix(s, p) == IF HasPrefix(s, p) THEN SubSeq(s, Len(p) + 1, Len(s)) ELSE s

RECURSIVE TrimLeft(_)
TrimLeft(s) == IF s # <<>> /\ Head(s) = " " THEN TrimLeft(Tail(s)) ELSE s

RECURSIVE TrimRight(_)
TrimRight(s) ==
    IF s # <<>> /\ s[Len(s)] = " " THEN TrimRight(SubSeq(s, 1, Len(s) - 1)) ELSE s

TrimSpace(s) == TrimRight(TrimLeft(s))

\* the segments of s between the separators sep (strings.Split)
RECURSIVE Split(_, _)
Split(s, sep) ==
    IF \A i \in 1..Len(s) : s[i] # sep
    THEN <<s>>
    ELSE LET i == CHOOSE k \in 1..Len(s) :
                      s[k] = sep /\ \A j \in 1..(k - 1) : s[j] # sep
         IN  <<SubSeq(s, 1, i - 1)>> \o Split(SubSeq(s, i + 1, Len(s)), sep)

\* strings.SplitN(s, sep, n) for n >= 1: at most n parts, the last one unsplit
RECURSIVE SplitN(_, _, _)
SplitN(s, sep, n) ==
    IF n <= 1 \/ \A i \in 1..Len(s) : s[i] # sep
    THEN <<s>>
    ELSE LET i == CHOOSE k \in 1..Len(s) :
                      s[k] = sep /\ \A j \in 1..(k - 1) : s[j] # sep
         IN  <<SubSeq(s, 1, i - 1)>> \o SplitN(SubSeq(s, i + 1, Len(s)), sep, n - 1)

\* the parts joined with sep between them (strings.Join)
RECURSIVE JoinWith(_, _)
JoinWith(parts, sep) ==
    IF parts = <<>> THEN <<>>
    ELSE IF Len(parts) = 1 THEN parts[1]
    ELSE parts[1] \o <<sep>> \o JoinWith(Tail(parts), sep)

DotDot == <<".", ".">>

\* the loop of filepath.Clean over the path's elements: "" and "." are
\* dropped, ".." removes the element before it, is dropped at the root and
\* is kept at the front of a relative path
RECURSIVE CleanElems(_, _, _)
CleanElems(segs, kept, rooted) ==
    IF segs = <<>> THEN kept
    ELSE LET s == Head(segs) IN
         CleanElems(Tail(segs),
             IF s = <<>> \/ s = <<".">> THEN kept
             ELSE IF s = DotDot
                  THEN IF kept # <<>> /\ kept[Len(kept)] # DotDot
                       THEN SubSeq(kept, 1, Len(kept) - 1)
                       ELSE IF rooted THEN kept ELSE Append(kept, s)
                  ELSE Append(kept, s),
             rooted)

\* filepath.Clean on a slash-separated path
Clean(path) ==
    IF path = <<>> THEN <<".">>
    ELSE LET rooted == Head(path) = "/"
             kept == JoinWith(CleanElems(Split(path, "/"), <<>>, rooted), "/")
         IN  IF rooted THEN <<"/">> \o kept
             ELSE IF kept = <<>> THEN <<".">> ELSE kept

\* filepath.Join(a, b): empty elements are ignored, the result is cleaned
Join(a, b) ==
    IF a = <<>> THEN (IF b = <<>> THEN <<>> ELSE Clean(b))
    ELSE Clean(a \o <<"/">> \o b)

\* filepath.Ext: the suffix of the last element that starts at its last dot
RECURSIVE Ext(_)
Ext(name) ==
    IF name = <<>> \/ name[Len(name)] = "/" THEN <<>>
    ELSE IF name[Len(name)] = "." THEN <<".">>
    ELSE LET e == Ext(SubSeq(name, 1, Len(name) - 1))
         IN  IF e = <<>> THEN <<>> ELSE Append(e, name[Len(name)])

\* the absolute, cleaned path the operating system opens for name
Resolve(dir, name) == IF name # <<>> /\ Head(name) = "/" THEN Clean(name) ELSE Join(dir, name)

\* trimTrailingSlash
RECURSIVE trimTrailingSlash(_)
trimTrailingSlash(s) ==
    IF Len(s) > 0 /\ s[Len(s)] = "/" THEN trimTrailingSlash(SubSeq(s, 1, Len(s) - 1)) ELSE s

HexDigits == <<"0", "1", "2", "3", "4", "5", "6", "7", "8", "9",
               "a", "b", "c", "d", "e", "f">>

\* hex.EncodeToString: two digits per byte
HexPairs == [b \in 0..255 |-> <<HexDigits[(b \div 16) + 1], HexDigits[(b % 16) + 1]>>]

RECURSIVE hexEncodeToString(_)
hexEncodeToString(b) ==
    IF b = <<>> THEN <<>> ELSE HexPairs[Head(b)] \o hexEncodeToString(Tail(b))

B64 == <<"A", "B", "C", "D", "E", "F", "G", "H", "I", "J", "K", "L", "M",
         "N", "O", "P", "Q", "R", "S", "T", "U", "V", "W", "X", "Y", "Z",
         "a", "b", "c", "d", "e", "f", "g", "h", "i", "j", "k", "l", "m",
         "n", "o", "p", "q", "r", "s", "t", "u", "v", "w", "x", "y", "z",
         "0", "1", "2", "3", "4", "5", "6", "7", "8", "9", "-", "_">>

\* base64.URLEncoding.EncodeToString: three bytes to four digits, padded with "="
RECURSIVE base64URLEncode(_)
base64URLEncode(b) ==
    IF b = <<>> THEN <<>>
    ELSE IF Len(b) = 1
    THEN <<B64[(b[1] \div 4) + 1], B64[((b[1] % 4) * 16) + 1], "=", "=">>
    ELSE IF Len(b) = 2
    THEN <<B64[(b[1] \div 4) + 1], B64[((b[1] % 4) * 16) + (b[2] \div 16) + 1],
           B64[((b[2] % 16) * 4) + 1], "=">>
    ELSE <<B64[(b[1] \div 4) + 1], B64[((b[1] % 4) * 16) + (b[2] \div 16) + 1],
           B64[((b[2] % 16) * 4) + (b[3] \div 64) + 1], B64[(b[3] % 64) + 1]>>
         \o base64URLEncode(SubSeq(b, 4, Len(b)))

----------------------------------------------------------------------------
(* The random source. crypto/rand.Read either fails or fills the buffer    *)
(* with any bytes; the model draws the buffer from RandOutputs, one byte   *)
(* where the code reads 32, and nothing keeps two reads apart.             *)

RandOutputs == {<<0>>, <<255>>}

RandReads == {[err |-> TRUE, b |-> <<>>]} \cup {[err |-> FALSE, b |-> b] : b \in RandOutputs}

\* generateSecureToken: the hex text of the bytes read, or the read's error
generateSecureToken(r) ==
    IF r.err THEN [token |-> <<>>, err |-> TRUE]
    ELSE [token |-> hexEncodeToString(r.b), err |-> FALSE]

\* generateSessionToken: the base64url text of the bytes read, or the read's error
generateSessionToken(r) ==
    IF r.err THEN [token |-> <<>>, err |-> TRUE]
    ELSE [token |-> base64URLEncode(r.b), err |-> FALSE]

----------------------------------------------------------------------------
(* Sessions: auth.go. HMAC-SHA256 is a free symbol: the base64url text of  *)
(* the tag of (secret, token) is one run of atoms that holds no ".", and   *)
(* two tags are equal exactly when their secrets and tokens are.           *)

\* the text of a tag holds no "."
Undot(s) == [i \in 1..Len(s) |-> IF s[i] = "." THEN "%2E" ELSE s[i]]

signSessionToken(token, secret) ==
    <<"hmac(">> \o Undot(secret) \o <<",">> \o Undot(token) \o <<")">>

\* a check that takes any signature
verifyAnySignature(token, signature, secret) == TRUE

verifySessionToken(token, signature, secret) ==
    LET expected == signSessionToken(token, secret)
    IN  signature = expected

\* the cookie value setSessionCookie composes: token.signature.userInfo
SessionValue(token, secret, userInfo) ==
    token \o <<".">> \o signSessionToken(token, secret) \o <<".">> \o userInfo

hasAuthConfigured(a) ==
    \/ a.AuthConfig.Password # <<>>
    \/ a.AuthConfig.GoogleClientID # ""
    \/ a.AuthConfig.MicrosoftClientID # ""
    \/ a.AuthConfig.GitHubClientID # ""

\* a check that cuts the cookie at every dot
isAuthenticatedByParts(a, cookie) ==
    IF ~hasAuthConfigured(a) THEN TRUE
    ELSE IF cookie = None THEN FALSE
    ELSE LET parts == Split(cookie, ".")
         IN  IF Len(parts) # 3 THEN FALSE
             ELSE parts[2] = signSessionToken(parts[1], a.AuthConfig.SessionSecret)

\* a check that also asks for a label setSessionCookie is called with
isAuthenticatedByLabel(a, cookie) ==
    IF ~hasAuthConfigured(a) THEN TRUE
    ELSE IF cookie = None THEN FALSE
    ELSE LET parts == SplitN(cookie, ".", 3)
         IN  IF Len(parts) # 3 THEN FALSE
             ELSE /\ verifySessionToken(parts[1], parts[2], a.AuthConfig.SessionSecret)
                  /\ parts[3] \in {<<"password">>, <<"google">>, <<"microsoft">>,
                                   <<"github">>}

\* isAuthenticated, on the request's session cookie (None when it carries none)
isAuthenticated(a, cookie) ==
    IF ~hasAuthConfigured(a) THEN TRUE
    ELSE IF cookie = None THEN FALSE
    ELSE LET parts == SplitN(cookie, ".", 3)
         IN  IF Len(parts) # 3 THEN FALSE
             ELSE verifySessionToken(parts[1], parts[2], a.AuthConfig.SessionSecret)

\* a gate that lets every request through
requireNothing(a, cookie) == TRUE

\* requireAuth: whether the wrapped handler is called
requireAuth(a, cookie) == isAuthenticated(a, cookie)

\* the redirect requireAuth answers with otherwise
LoginRedirect(path) == <<"/", "login", "?", "redirect=">> \o path

----------------------------------------------------------------------------
(* Configuration: LoadConfig and NewApp (unnamed/part_000). *)

\* how many bytes of the password the default session secret takes
SecretPrefixLen == 10

Min(a, b) == IF a < b THEN a ELSE b

\* strings.EqualFold(s, "true")
EqualFoldTrue(s) ==
    s \in {"true", "truE", "trUe", "trUE", "tRue", "tRuE", "tRUe", "tRUE",
           "True", "TruE", "TrUe", "TrUE", "TRue", "TRuE", "TRUe", "TRUE"}

\* LoadConfig: the Config built from the environment and the flags. What
\* firstNonEmpty returns for a flag and its environment variable is an input:
\* uploadDir, defaultFrom, defaultConn, faxAppID
LoadConfig(e) ==
    LET hipaaEnv == IF e.HIPAA_MODE = "" /\ e.HIPPA_MODE # "" THEN e.HIPPA_MODE
                    ELSE e.HIPAA_MODE
        authPassword == e.AUTH_PASSWORD
        sessionSecret ==
            IF e.SESSION_SECRET = <<>> /\ authPassword # <<>>
            THEN <<"change-me-">>
                 \o SubSeq(authPassword, 1, Min(Len(authPassword), SecretPrefixLen))
            ELSE e.SESSION_SECRET
    IN  [ Hipaa |-> e.hipaaFlag \/ EqualFoldTrue(hipaaEnv) \/ hipaaEnv = "1",
          UploadDir |-> e.uploadDir,
          PublicBaseURL |-> e.PUBLIC_BASE_URL,
          DefaultFrom |-> e.defaultFrom,
          DefaultConn |-> e.defaultConn,
          FaxAppID |-> e.faxAppID,
          AuthConfig |-> [ Password |-> authPassword,
                           SessionSecret |-> sessionSecret,
                           GoogleClientID |-> e.GOOGLE_CLIENT_ID,
                           MicrosoftClientID |-> e.MICROSOFT_CLIENT_ID,
                           GitHubClientID |-> e.GITHUB_CLIENT_ID ] ]

\* the backend predicate as handleFileUpload states it
UseMemoryStore(a) == a.Hipaa \/ a.UploadDir = <<>>

\* a retrieval that goes to the disk whenever a directory is configured
ServeFromDir(a) == a.UploadDir # <<>>

\* the backend predicate as handleMediaServe states it
ServeFromDisk(a) == ~a.Hipaa /\ a.UploadDir # <<>>

\* a cleanup goroutine started in compliance mode only
StartsCleanupInHipaa(cfg) == cfg.Hipaa

\* the condition under which NewApp starts the cleanup goroutine
StartsCleanup(cfg) == cfg.Hipaa \/ cfg.UploadDir = <<>>

\* NewApp: the App built from the Config
NewApp(cfg) ==
    [ Hipaa |-> cfg.Hipaa,
      UploadDir |-> cfg.UploadDir,
      PublicBaseURL |-> IF cfg.PublicBaseURL = <<>>
                        THEN <<"http:", "/", "/", "localhost:8080">>
                        ELSE cfg.PublicBaseURL,
      DefaultFrom |-> cfg.DefaultFrom,
      DefaultConnectionID |-> cfg.DefaultConn,
      FaxApplicationID |-> cfg.FaxAppID,
      AuthConfig |-> cfg.AuthConfig ]

\* an environment in which nothing is set
NoEnv ==
    [ AUTH_PASSWORD |-> <<>>, SESSION_SECRET |-> <<>>, GOOGLE_CLIENT_ID |-> "",
      MICROSOFT_CLIENT_ID |-> "", GITHUB_CLIENT_ID |-> "", HIPAA_MODE |-> "",
      HIPPA_MODE |-> "", hipaaFlag |-> FALSE, uploadDir |-> <<>>,
      PUBLIC_BASE_URL |-> <<"https:", "/", "/", "host", "/">>,
      defaultFrom |-> "", defaultConn |-> "", faxAppID |-> "" ]

DataDir == <<"/", "data">>

\* the environments the media specification starts in: the memory backend by
\* compliance mode over a configured directory (behind a password), and the
\* disk backend
MediaEnvs ==
    { [NoEnv EXCEPT !.HIPAA_MODE = "TRUE", !.uploadDir = DataDir,
                    !.AUTH_PASSWORD = <<"pw">>],
      [NoEnv EXCEPT !.uploadDir = DataDir, !.defaultConn = "conn"] }

----------------------------------------------------------------------------
(* The media store: auth.go (upload) and handlers.go (retrieval). *)

\* the ExpiresAt offset of storeFileInMemory, in minutes
FileTTL == 30

\* the clock advances by the lifetime of an entry
TickStep == FileTTL

Getters == {"g1", "g2"}

MediaPrefix == <<"/", "media", "/">>

ZeroFile == [Data |-> "", Type |-> "", ExpiresAt |-> 0]

NoResp == [from |-> "none", status |-> 0]

IdleGet == [pc |-> "idle"]

IdleFax == [pc |-> "idle"]

FreeMu == [w |-> "none", r |-> {}]

\* time.Time.After
After(t, u) == t > u

\* the tokens the model's random source gives
Tokens == {generateSecureToken(r).token : r \in {x \in RandReads : ~x.err}}

\* an insertion that writes the new entry over every entry of the map
MapPutOver(m, k, v) == [x \in DOMAIN m \cup {k} |-> v]

MapPut(m, k, v) == [x \in DOMAIN m \cup {k} |-> IF x = k THEN v ELSE m[x]]

\* a delete that leaves the map as it is
MapKeep(m, k) == m

\* a delete that empties the map
MapClear(m, k) == [x \in {} |-> m[x]]

MapDelete(m, k) == [x \in DOMAIN m \ {k} |-> m[x]]

\* the answer of a /media/ request: served is the name ServeFile was called
\* with (None when it was not called)
Answer(status, token, body, ctype, served) ==
    [from |-> "media", status |-> status, token |-> token, body |-> body,
     ctype |-> ctype, served |-> served]

\* net/http's containsDotDot, on the request's URL path
containsDotDot(v) == \E i \in 1..Len(Split(v, "/")) : Split(v, "/")[i] = DotDot

\* http.ServeFile: refuses a URL path with a ".." element, else serves the
\* file of that name when there is one
ServeFile(urlPath, name, token) ==
    IF containsDotDot(urlPath)
    THEN Answer(400, token, "", "", name)
    ELSE IF Resolve(cwd, name) \in DOMAIN disk
    THEN Answer(200, token, disk[Resolve(cwd, name)], "by-extension", name)
    ELSE Answer(404, token, "", "", name)

\* the traversal check of handleMediaServe
InsideUploadDir(filePath, uploadDir) == HasPrefix(filePath, Clean(uploadDir) \o <<"/">>)

\* handleMediaServe up to the map: the method, the token, the whole of the
\* disk branch, and a.memMu.RLock(), which waits while a writer holds memMu
ServeBegin(p, method, path) ==
    /\ get[p].pc = "idle"
    /\ LET token == TrimSpace(TrimPrefix(path, MediaPrefix))
           filePath == Join(app.UploadDir, Clean(token))
       IN  IF method # "GET"
           THEN out' = Answer(405, token, "", "", None) /\ UNCHANGED <<get, memMu>>
           ELSE IF token = <<>>
           THEN out' = Answer(404, token, "", "", None) /\ UNCHANGED <<get, memMu>>
           ELSE IF ServeFromDisk(app)
           THEN /\ IF ~InsideUploadDir(filePath, app.UploadDir)
                   THEN out' = Answer(404, token, "", "", None)
                   ELSE out' = ServeFile(path, filePath, token)
                /\ UNCHANGED <<get, memMu>>
           ELSE /\ memMu.w = "none"
                /\ memMu' = [memMu EXCEPT !.r = @ \cup {p}]
                /\ get' = [get EXCEPT ![p] = [pc |-> "read", token |-> token]]
                /\ UNCHANGED out
    /\ UNCHANGED <<app, cwd, cleanupOn, now, uploadedFiles, disk, fax, sweep, stores, jar>>

\* file, ok := a.uploadedFiles[token]; a.memMu.RUnlock()
ServeRead(p) ==
    /\ get[p].pc = "read"
    /\ LET ok == get[p].token \in DOMAIN uploadedFiles
       IN  get' = [get EXCEPT ![p] =
               [pc |-> "check", token |-> get[p].token, ok |-> ok,
                file |-> IF ok THEN uploadedFiles[get[p].token] ELSE ZeroFile]]
    /\ memMu' = [memMu EXCEPT !.r = @ \ {p}]
    /\ UNCHANGED <<app, cwd, cleanupOn, now, uploadedFiles, disk, fax, sweep, stores,
                   jar, out>>

\* the expiry check on the copy: not found, expired (go on to delete), or served
ServeCheck(p) ==
    /\ get[p].pc = "check"
    /\ LET g == get[p]
       IN  IF ~g.ok
           THEN /\ out' = Answer(404, g.token, "", "", None)
                /\ get' = [get EXCEPT ![p] = IdleGet]
           ELSE IF After(now, g.file.ExpiresAt)
           THEN /\ get' = [get EXCEPT ![p] = [pc |-> "lock", token |-> g.token]]
                /\ UNCHANGED out
           ELSE /\ out' = Answer(200, g.token, g.file.Data, g.file.Type, None)
                /\ get' = [get EXCEPT ![p] = IdleGet]
    /\ UNCHANGED <<app, cwd, cleanupOn, now, uploadedFiles, memMu, disk, fax, sweep,
                   stores, jar>>

\* a lazy expiry that goes on to the delete without a.memMu.Lock()
ServeNoLock(p) ==
    /\ get[p].pc = "lock"
    /\ get' = [get EXCEPT ![p].pc = "delete"]
    /\ UNCHANGED <<app, cwd, cleanupOn, now, uploadedFiles, memMu, disk, fax, sweep,
                   stores, jar, out>>

\* a.memMu.Lock() of the lazy expiry
ServeLock(p) ==
    /\ get[p].pc = "lock"
    /\ memMu = FreeMu
    /\ memMu' = [memMu EXCEPT !.w = p]
    /\ get' = [get EXCEPT ![p].pc = "delete"]
    /\ UNCHANGED <<app, cwd, cleanupOn, now, uploadedFiles, disk, fax, sweep, stores,
                   jar, out>>

\* delete(a.uploadedFiles, token); a.memMu.Unlock(); http.NotFound
ServeDelete(p) ==
    /\ get[p].pc = "delete"
    /\ uploadedFiles' = MapDelete(uploadedFiles, get[p].token)
    /\ memMu' = [memMu EXCEPT !.w = "none"]
    /\ out' = Answer(404, get[p].token, "", "", None)
    /\ get' = [get EXCEPT ![p] = IdleGet]
    /\ UNCHANGED <<app, cwd, cleanupOn, now, disk, fax, sweep, stores, jar>>

\* the ticker fires: cleanupExpiredFiles reads the clock, before it locks
SweepStart ==
    /\ cleanupOn
    /\ sweep.pc = "wait"
    /\ sweep' = [pc |-> "lock", now |-> now]
    /\ UNCHANGED <<app, cwd, cleanupOn, now, uploadedFiles, memMu, disk, fax, get,
                   stores, jar, out>>

\* a.memMu.Lock() of the sweep
SweepLock ==
    /\ sweep.pc = "lock"
    /\ memMu = FreeMu
    /\ memMu' = [memMu EXCEPT !.w = "sweep"]
    /\ sweep' = [sweep EXCEPT !.pc = "scan"]
    /\ UNCHANGED <<app, cwd, cleanupOn, now, uploadedFiles, disk, fax, get, stores,
                   jar, out>>

\* a loop that also removes the entries expiring at the sweep's timestamp
UnexpiredAfter(files, t) == {k \in DOMAIN files : After(files[k].ExpiresAt, t)}

\* the entries the loop of cleanupExpiredFiles keeps
Unexpired(files, t) == {k \in DOMAIN files : ~After(t, files[k].ExpiresAt)}

\* the loop over the map, and the deferred Unlock
SweepScan ==
    /\ sweep.pc = "scan"
    /\ uploadedFiles' = [k \in Unexpired(uploadedFiles, sweep.now) |-> uploadedFiles[k]]
    /\ memMu' = [memMu EXCEPT !.w = "none"]
    /\ sweep' = [pc |-> "wait"]
    /\ UNCHANGED <<app, cwd, cleanupOn, now, disk, fax, get, stores, jar, out>>

\* time passes
Tick ==
    /\ now < MaxTicks * TickStep
    /\ now' = now + TickStep
    /\ UNCHANGED <<app, cwd, cleanupOn, uploadedFiles, memMu, disk, fax, get, sweep,
                   stores, jar, out>>

----------------------------------------------------------------------------
(* net/http as the handlers use it: http.Redirect and http.SetCookie. *)

Schemes == {"http:", "https:"}

\* url.Parse finds a scheme or a host in the target
HasSchemeOrHost(url) ==
    \/ url # <<>> /\ url[1] \in Schemes
    \/ HasPrefix(url, <<"/", "/">>) /\ Len(url) > 2 /\ url[3] # "/"

\* path.Split: the directory of the request path, through its last "/"
DirOf(p) ==
    LET at == {i \in 1..Len(p) : p[i] = "/"}
    IN  IF at = {} THEN <<>> ELSE SubSeq(p, 1, CHOOSE i \in at : \A j \in at : j <= i)

\* the Location header http.Redirect writes for the target url on a request
\* for reqPath: a target with a scheme or a host as it is, any other made
\* absolute and its path cleaned
Redirect(reqPath, url) ==
    IF HasSchemeOrHost(url) THEN url
    ELSE LET abs == IF url = <<>> \/ url[1] # "/" THEN DirOf(reqPath) \o url ELSE url
             qs  == {i \in 1..Len(abs) : abs[i] = "?"}
             cut == IF qs = {} THEN Len(abs) + 1
                    ELSE CHOOSE i \in qs : \A j \in qs : i <= j
             p   == SubSeq(abs, 1, cut - 1)
             c   == Clean(p)
             trailing == p # <<>> /\ p[Len(p)] = "/"
         IN  (IF trailing /\ c[Len(c)] # "/" THEN c \o <<"/">> ELSE c)
             \o SubSeq(abs, cut, Len(abs))

\* the bytes a cookie value cannot hold, which http.SetCookie drops
BadCookieBytes == {";", "\\", "\""}

\* net/http's sanitizeCookieValue
sanitizeCookieValue(v) == SelectSeq(v, LAMBDA c : c \notin BadCookieBytes)

----------------------------------------------------------------------------
(* POST /fax: requireAuth(handleFax), handleSendFax, handleFileUpload and  *)
(* the two stores.                                                         *)

\* the calls to the fax API a request makes, in order
NoCall == <<>>

FaxPath == <<"/", "fax">>

\* the store_preview and store_media form values being "on"
Asked(storePreview, storeMedia) == [preview |-> storePreview, media |-> storeMedia]

\* the answer of a POST /fax to a request carrying the session cookie and
\* the store flags asked: api is the Faxes.New call the request made
FaxAnswer(cookie, asked, status, location, api) ==
    [from |-> "fax", path |-> FaxPath, cookie |-> cookie, asked |-> asked,
     status |-> status, location |-> location, api |-> api]

RemoteDoc == <<"https:", "/", "/", "x", "/", "doc", ".", "pdf">>

\* a session token the server issued earlier
IssuedToken == generateSessionToken([err |-> FALSE, b |-> <<0>>]).token

\* the session cookie this server signed for it
ServerCookie(a) == SessionValue(IssuedToken, a.AuthConfig.SessionSecret, <<"password">>)

\* session cookies a request may carry: none, the one this server signed, one
\* signed under another secret
KnownCookies(a) ==
    {None, ServerCookie(a), SessionValue(IssuedToken, <<"guess">>, <<"password">>)}

Faults == {"parse", "open", "copy", "mkdir", "create"}

\* the uploads of the model: payload, Content-Type header, file name
Uploads ==
    { [data |-> "abc", ctype |-> "", filename |-> <<"doc">>],
      [data |-> "xyz", ctype |-> "application/pdf", filename |-> <<"doc">>] }

PlainForm(a) ==
    [cookie |-> ServerCookie(a), fault |-> "none", conn |-> "c1", from |-> "+1",
     to |-> "+2", mediaURL |-> <<>>, storePreview |-> FALSE, storeMedia |-> FALSE,
     hasFile |-> FALSE, data |-> "", ctype |-> "", filename |-> <<>>]

\* the uploads of the model, under every cookie
UploadRequests(a) ==
    {[PlainForm(a) EXCEPT !.cookie = c, !.hasFile = TRUE, !.data = u.data,
                          !.ctype = u.ctype, !.filename = u.filename] :
        c \in KnownCookies(a), u \in Uploads}

\* the POST /fax requests of the model: every upload, and without a file
\* every cookie, every field missing in turn, every fault in turn, a media
\* URL or none with every store flag
FaxRequests(a) ==
    UploadRequests(a)
    \cup {[PlainForm(a) EXCEPT !.cookie = c, !.mediaURL = RemoteDoc] : c \in KnownCookies(a)}
    \cup {[PlainForm(a) EXCEPT !.conn = c, !.from = f, !.to = t, !.mediaURL = RemoteDoc] :
        c \in {"", "c1"}, f \in {"", "+1"}, t \in {"", "+2"}}
    \cup {[PlainForm(a) EXCEPT !.fault = f, !.hasFile = TRUE, !.data = "abc"] : f \in Faults}
    \cup {[PlainForm(a) EXCEPT !.mediaURL = m, !.storePreview = sp, !.storeMedia = sm] :
        m \in {<<>>, RemoteDoc}, sp \in BOOLEAN, sm \in BOOLEAN}

\* the public URL both stores return
UploadedURL(a, name) == trimTrailingSlash(a.PublicBaseURL) \o MediaPrefix \o name

\* the extension storeFileToDisk gives the file
DiskExt(filename, ctype) ==
    IF Ext(filename) # <<>> THEN Ext(filename)
    ELSE IF ctype = "application/pdf" THEN <<".", "pdf">>
    ELSE IF ctype = "image/tiff" THEN <<".", "tiff">>
    ELSE <<>>

\* a store that keeps the Content-Type header of the upload as it is
KeepsType(ctype) == ctype

\* the content type storeFileInMemory stores
StoredType(ctype) == IF ctype = "" THEN "application/octet-stream" ELSE ctype

\* the entry storeFileInMemory inserts
NewEntry(data, ctype, t) ==
    [Data |-> data, Type |-> StoredType(ctype), ExpiresAt |-> t + FileTTL]

\* store flags that follow the form whatever the mode
StoreFlagAsked(a, wanted) == IF wanted THEN "true" ELSE "unset"

\* the store flags handleSendFax sends
StoreFlag(a, wanted) ==
    IF a.Hipaa THEN "false" ELSE IF wanted THEN "true" ELSE "unset"

\* the rest of handleSendFax once the upload is done: the parameters, the
\* Faxes.New call, the page
SendFax(a, cookie, url, mediaURL, storePreview, storeMedia, apiOK, tmplOK) ==
    LET media == IF url # <<>> THEN url ELSE mediaURL
        call == << [op |-> "Faxes.New", ok |-> apiOK, MediaURL |-> media,
                    StorePreview |-> StoreFlag(a, storePreview),
                    StoreMedia |-> StoreFlag(a, storeMedia)] >>
        asked == Asked(storePreview, storeMedia)
    IN  IF media = <<>> THEN FaxAnswer(cookie, asked, 400, <<>>, NoCall)
        ELSE IF ~apiOK THEN FaxAnswer(cookie, asked, 502, <<>>, call)
        ELSE IF ~tmplOK THEN FaxAnswer(cookie, asked, 500, <<>>, call)
        ELSE FaxAnswer(cookie, asked, 200, <<>>, call)

\* one returned store: the backend, the name in the returned URL, the payload
\* and Content-Type header of the upload, the time of the store
Stored(backend, token, data, ctype, t) ==
    [backend |-> backend, token |-> token, data |-> data, ctype |-> ctype, at |-> t]

\* requireAuth(handleFax) on a POST: the gate, handleSendFax, handleFileUpload
\* and the whole of storeFileToDisk; with the memory backend, up to the
\* a.memMu.Lock() of storeFileInMemory, which waits while memMu is held
FaxBegin(req, r, apiOK, tmplOK) ==
    /\ fax.pc = "idle"
    /\ req.hasFile => Len(stores) < MaxStores
    /\ LET connectionID == IF req.conn = "" THEN app.DefaultConnectionID ELSE req.conn
           \* from and to are the request's numbers as normalizePhoneNumber
           \* returns them
           from == IF req.from = "" THEN app.DefaultFrom ELSE req.from
           g == generateSecureToken(r)
           filename == g.token \o DiskExt(req.filename, req.ctype)
           destPath == Join(app.UploadDir, filename)
           asked == Asked(req.storePreview, req.storeMedia)
           fail(status) == /\ out' = FaxAnswer(req.cookie, asked, status, <<>>, NoCall)
                           /\ UNCHANGED <<fax, memMu, disk, stores>>
       IN  IF ~requireAuth(app, req.cookie)
           THEN /\ out' = FaxAnswer(req.cookie, asked, 303,
                                 Redirect(FaxPath, LoginRedirect(FaxPath)), NoCall)
                /\ UNCHANGED <<fax, memMu, disk, stores>>
           ELSE IF req.fault = "parse"
           THEN fail(400)
           ELSE IF connectionID = "" \/ from = "" \/ req.to = ""
           THEN fail(400)
           ELSE IF ~req.hasFile
           THEN /\ out' = SendFax(app, req.cookie, <<>>, req.mediaURL, req.storePreview,
                                  req.storeMedia, apiOK, tmplOK)
                /\ UNCHANGED <<fax, memMu, disk, stores>>
           ELSE IF req.fault = "open"
           THEN fail(500)
           ELSE IF UseMemoryStore(app)
           THEN IF req.fault = "copy" \/ g.err
                THEN fail(500)
                ELSE /\ memMu = FreeMu
                     /\ memMu' = [memMu EXCEPT !.w = "fax"]
                     /\ fax' = [pc |-> "insert", cookie |-> req.cookie,
                                token |-> g.token, data |-> req.data,
                                ctype |-> req.ctype, mediaURL |-> req.mediaURL,
                                storePreview |-> req.storePreview,
                                storeMedia |-> req.storeMedia]
                     /\ UNCHANGED <<out, disk, stores>>
           ELSE IF req.fault = "mkdir" \/ g.err \/ req.fault = "create"
           THEN fail(500)
           ELSE IF req.fault = "copy"
           THEN /\ out' = FaxAnswer(req.cookie, asked, 500, <<>>, NoCall)
                /\ disk' = MapPut(disk, Resolve(cwd, destPath), "")
                /\ UNCHANGED <<fax, memMu, stores>>
           ELSE /\ out' = SendFax(app, req.cookie, UploadedURL(app, filename), req.mediaURL,
                                  req.storePreview, req.storeMedia, apiOK, tmplOK)
                /\ disk' = MapPut(disk, Resolve(cwd, destPath), req.data)
                /\ stores' = Append(stores, Stored("disk", filename, req.data, req.ctype, now))
                /\ UNCHANGED <<fax, memMu>>
    /\ UNCHANGED <<app, cwd, cleanupOn, now, uploadedFiles, get, sweep, jar>>

\* a.uploadedFiles[token] = uploadedFile{...}; a.memMu.Unlock(); the URL,
\* and the rest of handleSendFax
FaxInsert(apiOK, tmplOK) ==
    /\ fax.pc = "insert"
    /\ uploadedFiles' = MapPut(uploadedFiles, fax.token, NewEntry(fax.data, fax.ctype, now))
    /\ memMu' = [memMu EXCEPT !.w = "none"]
    /\ stores' = Append(stores, Stored("memory", fax.token, fax.data, fax.ctype, now))
    /\ out' = SendFax(app, fax.cookie, UploadedURL(app, fax.token), fax.mediaURL,
                      fax.storePreview, fax.storeMedia, apiOK, tmplOK)
    /\ fax' = IdleFax
    /\ UNCHANGED <<app, cwd, cleanupOn, now, disk, get, sweep, jar>>

----------------------------------------------------------------------------
(* The pages behind requireAuth: main's routes "/", "/fax", "/faxes" and   *)
(* "/settings" (GET and POST; a POST /fax is FaxBegin above).              *)

HomePath == <<"/">>

FaxesPath == <<"/", "faxes">>

SettingsPath == <<"/", "settings">>

OtherPath == <<"/", "other">>

LoginPath == <<"/", "login">>

\* what a handler answers: the status, the Location header, the calls to the
\* fax API it made
Reply(status, location, api) == [status |-> status, location |-> location, api |-> api]

\* the page a handler renders after the calls api
Page(api, tmplOK) == IF tmplOK THEN Reply(200, <<>>, api) ELSE Reply(500, <<>>, api)

\* a call to the fax API and whether it succeeded
ApiCall(op, ok) == [op |-> op, ok |-> ok]

handleHome(req, tmplOK) ==
    IF req.method # "GET" THEN Reply(405, <<>>, NoCall)
    ELSE Page(NoCall, tmplOK)

handleShowFax(req, apiOK, tmplOK) ==
    IF req.id = "" THEN Reply(400, <<>>, NoCall)
    ELSE IF ~apiOK THEN Reply(502, <<>>, <<ApiCall("Faxes.Get", FALSE)>>)
    ELSE Page(<<ApiCall("Faxes.Get", TRUE)>>, tmplOK)

\* handleFax on a method other than POST
handleFax(req, apiOK, tmplOK) ==
    IF req.method = "GET" THEN handleShowFax(req, apiOK, tmplOK)
    ELSE Reply(405, <<>>, NoCall)

handleFaxes(req, apiOK, tmplOK) ==
    IF req.method # "GET" THEN Reply(405, <<>>, NoCall)
    ELSE IF ~apiOK THEN Reply(502, <<>>, <<ApiCall("Faxes.List", FALSE)>>)
    ELSE Page(<<ApiCall("Faxes.List", TRUE)>>, tmplOK)

handleShowSettings(req, apiOK, tmplOK) ==
    IF ~apiOK THEN Reply(502, <<>>, <<ApiCall("FaxApplications.Get", FALSE)>>)
    ELSE Page(<<ApiCall("FaxApplications.Get", TRUE)>>, tmplOK)

handleUpdateSettings(req, apiOK, updateOK) ==
    IF req.fault = "parse" THEN Reply(400, <<>>, NoCall)
    ELSE IF ~apiOK THEN Reply(502, <<>>, <<ApiCall("FaxApplications.Get", FALSE)>>)
    ELSE LET calls == <<ApiCall("FaxApplications.Get", TRUE),
                        ApiCall("FaxApplications.Update", updateOK)>>
         IN  IF ~updateOK
             THEN Reply(303, Redirect(req.path, SettingsPath \o <<"?", "error=failed">>), calls)
             ELSE Reply(303, Redirect(req.path, SettingsPath \o <<"?", "success=true">>), calls)

handleSettings(a, req, apiOK, updateOK, tmplOK) ==
    IF a.FaxApplicationID = "" THEN Reply(404, <<>>, NoCall)
    ELSE IF req.method = "GET" THEN handleShowSettings(req, apiOK, tmplOK)
    ELSE IF req.method = "POST" THEN handleUpdateSettings(req, apiOK, updateOK)
    ELSE Reply(405, <<>>, NoCall)

\* the handler main's ServeMux picks for a path behind requireAuth: the
\* pattern "/" takes every path no other pattern takes
Routed(a, req, apiOK, updateOK, tmplOK) ==
    IF req.path = FaxPath THEN handleFax(req, apiOK, tmplOK)
    ELSE IF req.path = FaxesPath THEN handleFaxes(req, apiOK, tmplOK)
    ELSE IF req.path = SettingsPath THEN handleSettings(a, req, apiOK, updateOK, tmplOK)
    ELSE handleHome(req, tmplOK)

\* the answer to a request behind requireAuth
RouteAnswer(req, reply) ==
    [from |-> "route", path |-> req.path, cookie |-> req.cookie,
     status |-> reply.status, location |-> reply.location, api |-> reply.api]

\* requireAuth(next) on any request but a POST /fax
Route(req, apiOK, updateOK, tmplOK) ==
    /\ ~(req.path = FaxPath /\ req.method = "POST")
    /\ out' = IF ~requireAuth(app, req.cookie)
              THEN RouteAnswer(req, Reply(303, Redirect(req.path, LoginRedirect(req.path)),
                                          NoCall))
              ELSE RouteAnswer(req, Routed(app, req, apiOK, updateOK, tmplOK))
    /\ UNCHANGED <<app, cwd, cleanupOn, now, uploadedFiles, memMu, disk, fax, get, sweep,
                   stores, jar>>

----------------------------------------------------------------------------
(* Signing in and out: handleLogin, handlePasswordLogin, handleLogout,     *)
(* handleOAuthLogin, handleOAuthCallback. jar is the browser's cookie jar, *)
(* which keeps what the Set-Cookie headers of the answers say.             *)

\* sessionMaxAge, in minutes
sessionMaxAge == 1440

\* what a client that copies its session credential keeps of it: the value,
\* the time setSessionCookie issued it, and whether the session it names was
\* logged out since
NoCopy == [value |-> None, at |-> 0, loggedOut |-> FALSE]

Kept(value, t) == [value |-> value, at |-> t, loggedOut |-> FALSE]

\* the copy after a logout of the browser j: the credential of the browser's
\* session is logged out
LoggedOut(j) ==
    IF j.session # None /\ j.session = j.copy.value
    THEN [j.copy EXCEPT !.loggedOut = TRUE]
    ELSE j.copy

\* setSessionCookie: the cookie value it sets, or its error
setSessionCookie(a, userInfo, r) ==
    LET g == generateSessionToken(r)
    IN  IF g.err THEN [err |-> TRUE, value |-> None]
        ELSE [err |-> FALSE,
              value |-> sanitizeCookieValue(
                            SessionValue(g.token, a.AuthConfig.SessionSecret, userInfo))]

\* a login that redirects to whatever it is given
KeepsRedirect(redirect) == redirect

\* the redirect target handlePasswordLogin keeps
PasswordRedirect(redirect) ==
    IF redirect = <<>> \/ ~HasPrefix(redirect, <<"/">>) \/ HasPrefix(redirect, <<"/", "/">>)
    THEN <<"/">>
    ELSE redirect

\* the redirect target handleOAuthCallback keeps, of the oauth_redirect cookie
CallbackRedirect(cookie) ==
    IF cookie # None /\ HasPrefix(cookie, <<"/">>) /\ ~HasPrefix(cookie, <<"/", "/">>)
    THEN cookie
    ELSE <<"/">>

\* the answer of /login: branch is the part of handleLogin that answered,
\* password the form value handlePasswordLogin read, supplied the redirect
\* target read, issued the session cookie set
LoginAnswer(branch, password, supplied, status, location, issued) ==
    [from |-> "login", branch |-> branch, password |-> password, supplied |-> supplied,
     status |-> status, location |-> location, issued |-> issued]

\* a login that takes any password
anyPassword(password, configured) == TRUE

\* password == a.AuthConfig.Password
passwordMatches(password, configured) == password = configured

\* r.FormValue("redirect"): the body's value before the URL query's
FormRedirect(req) == IF req.formRedirect # None THEN req.formRedirect ELSE req.query

\* handleLogin, with handlePasswordLogin on a POST
Login(req, r, tmplOK) ==
    /\ LET redirect == PasswordRedirect(FormRedirect(req))
           s == setSessionCookie(app, <<"password">>, r)
           stay(branch, supplied, status, location) ==
               /\ out' = LoginAnswer(branch,
                                     IF branch = "password" /\ req.fault # "parse"
                                     THEN req.password ELSE None,
                                     supplied, status, location, None)
               /\ jar' = jar
       IN  IF ~hasAuthConfigured(app)
           THEN stay("open", req.query, 303, Redirect(LoginPath, <<"/">>))
           ELSE IF isAuthenticated(app, req.cookie)
           THEN stay("already", req.query, 303,
                     Redirect(LoginPath, IF req.query = <<>> THEN <<"/">> ELSE req.query))
           ELSE IF req.method # "POST"
           THEN stay("page", req.query, IF tmplOK THEN 200 ELSE 500, <<>>)
           ELSE IF req.fault = "parse"
           THEN stay("password", None, 400, <<>>)
           ELSE IF passwordMatches(req.password, app.AuthConfig.Password)
           THEN IF s.err
                THEN stay("password", FormRedirect(req), 500, <<>>)
                ELSE /\ out' = LoginAnswer("password", req.password, FormRedirect(req),
                                           303, Redirect(LoginPath, redirect), s.value)
                     /\ jar' = [jar EXCEPT !.session = s.value,
                                           !.copy = Kept(s.value, now)]
           ELSE stay("password", FormRedirect(req), 303,
                     Redirect(LoginPath,
                              LoginPath \o <<"?", "error=invalid&redirect=">> \o redirect))
    /\ UNCHANGED <<app, cwd, cleanupOn, now, uploadedFiles, memMu, disk, fax, get, sweep,
                   stores>>

\* handleLogout: the cleared session cookie leaves the jar
Logout ==
    /\ jar' = [jar EXCEPT !.session = None, !.copy = LoggedOut(jar)]
    /\ out' = [from |-> "logout", status |-> 303,
               location |-> Redirect(<<"/", "logout">>, LoginPath)]
    /\ UNCHANGED <<app, cwd, cleanupOn, now, uploadedFiles, memMu, disk, fax, get, sweep,
                   stores>>

Providers == {<<"google">>, <<"microsoft">>, <<"github">>}

AuthLoginPrefix == <<"/", "auth", "/", "login", "/">>

AuthCallbackPrefix == <<"/", "auth", "/", "callback", "/">>

\* getOAuthConfig: the client id of the provider's configuration, "" for nil
getOAuthConfig(a, provider) ==
    IF provider = <<"google">> THEN a.AuthConfig.GoogleClientID
    ELSE IF provider = <<"microsoft">> THEN a.AuthConfig.MicrosoftClientID
    ELSE IF provider = <<"github">> THEN a.AuthConfig.GitHubClientID
    ELSE ""

\* handleOAuthLogin: the two cookies and the redirect to the provider, whose
\* URL carries the state
OAuthLogin(path, query, r) ==
    /\ LET provider == TrimPrefix(path, AuthLoginPrefix)
           redirect == IF query = <<>> THEN <<"/">> ELSE query
           \* state, _ := generateSessionToken()
           state == generateSessionToken(r).token
       IN  IF getOAuthConfig(app, provider) = ""
           THEN /\ out' = [from |-> "oauthlogin", status |-> 400, provider |-> provider,
                           state |-> None]
                /\ jar' = jar
           ELSE /\ out' = [from |-> "oauthlogin", status |-> 307, provider |-> provider,
                           state |-> state]
                /\ jar' = [jar EXCEPT !.oauth_redirect = sanitizeCookieValue(redirect),
                                      !.oauth_state = sanitizeCookieValue(state)]
    /\ UNCHANGED <<app, cwd, cleanupOn, now, uploadedFiles, memMu, disk, fax, get, sweep,
                   stores>>

\* the answer of /auth/callback/: the oauth_state cookie and the state
\* parameter of the request, the oauth_redirect cookie, whether the code was
\* exchanged, the session cookie set
CallbackAnswer(req, status, location, exchanged, issued) ==
    [from |-> "callback", stateCookie |-> req.stateCookie, state |-> req.state,
     supplied |-> req.redirectCookie, status |-> status, location |-> location,
     exchanged |-> exchanged, issued |-> issued]

\* what config.Exchange and token.Valid say of the code
Exchanges == {"error", "invalid", "valid"}

\* a callback that only asks for the oauth_state cookie to be there
stateCookieMissing(stateCookie, state) == stateCookie = None

\* the state check of handleOAuthCallback: no oauth_state cookie, or one
\* that differs from the state parameter
invalidState(stateCookie, state) == stateCookie = None \/ stateCookie # state

\* handleOAuthCallback
OAuthCallback(req, exchange, r) ==
    /\ LET provider == TrimPrefix(req.path, AuthCallbackPrefix)
           s == setSessionCookie(app, provider, r)
           stay(status, exchanged) ==
               /\ out' = CallbackAnswer(req, status, <<>>, exchanged, None)
               /\ jar' = jar
       IN  IF invalidState(req.stateCookie, req.state)
           THEN stay(400, FALSE)
           ELSE IF getOAuthConfig(app, provider) = ""
           THEN stay(400, FALSE)
           ELSE IF exchange = "error"
           THEN stay(500, TRUE)
           ELSE IF exchange = "invalid"
           THEN stay(500, TRUE)
           ELSE IF s.err
           THEN stay(500, TRUE)
           ELSE /\ out' = CallbackAnswer(req, 303,
                              Redirect(req.path, CallbackRedirect(req.redirectCookie)),
                              TRUE, s.value)
                /\ jar' = [session |-> s.value, oauth_state |-> None,
                           oauth_redirect |-> None, copy |-> Kept(s.value, now)]
    /\ UNCHANGED <<app, cwd, cleanupOn, now, uploadedFiles, memMu, disk, fax, get, sweep,
                   stores>>

----------------------------------------------------------------------------
(* The media specification: POST /fax uploads, GET /media/ retrievals, the *)
(* cleanup goroutine and the clock, interleaved.                           *)

EmptyMap == [k \in {} |-> ZeroFile]

SecretFile == <<"/", "etc", "passwd">>

InitDisk == [k \in {SecretFile} |-> "root"]

NoJar ==
    [session |-> None, oauth_state |-> None, oauth_redirect |-> None, copy |-> NoCopy]

\* the /media/ paths the media specification requests: each token, and no
\* token
ServePaths == {MediaPrefix \o t : t \in Tokens} \cup {MediaPrefix \o <<" ">>}

AppDir == <<"/", "app">>

\* the state after NewApp under the environment e
Started(e) ==
    /\ app = NewApp(LoadConfig(e))
    /\ cleanupOn = StartsCleanup(LoadConfig(e))
    /\ cwd = AppDir
    /\ now = 0
    /\ uploadedFiles = EmptyMap
    /\ memMu = FreeMu
    /\ disk = InitDisk
    /\ fax = IdleFax
    /\ get = [p \in Getters |-> IdleGet]
    /\ sweep = [pc |-> "wait"]
    /\ stores = <<>>
    /\ jar = NoJar
    /\ out = NoResp

Init == \E e \in MediaEnvs : Started(e)

Next ==
    \/ \E p \in Getters, method \in {"GET", "POST"}, path \in ServePaths :
          ServeBegin(p, method, path)
    \/ \E p \in Getters : ServeRead(p)
    \/ \E p \in Getters : ServeCheck(p)
    \/ \E p \in Getters : ServeLock(p)
    \/ \E p \in Getters : ServeDelete(p)
    \/ \E req \in UploadRequests(app), r \in RandReads : FaxBegin(req, r, TRUE, TRUE)
    \/ FaxInsert(TRUE, TRUE)
    \/ SweepStart
    \/ SweepLock
    \/ SweepScan
    \/ Tick

Spec == Init /\ [][Next]_vars

----------------------------------------------------------------------------
(* The cleanup specification: the memory backend with the ticker of        *)
(* startFileCleanup firing again and again. The clock moves on, a          *)
(* goroutine that holds memMu goes on to release it, and a.memMu.Lock()    *)
(* of the sweep is granted in the end: a sync.RWMutex makes the readers    *)
(* that arrive behind a waiting writer wait, so the lock comes free again  *)
(* and again while the sweep waits, and the mutex does not starve one of   *)
(* its contenders. Nothing makes a retrieval or a store happen.            *)

\* memory mode with no directory, and compliance mode over a directory
CleanEnvs ==
    { NoEnv, [NoEnv EXCEPT !.HIPAA_MODE = "true", !.uploadDir = DataDir] }

\* the upload of the cleanup specification
CleanUpload ==
    [PlainForm(NewApp(LoadConfig(NoEnv))) EXCEPT
        !.cookie = None, !.hasFile = TRUE, !.data = "abc", !.filename = <<"doc">>]

InitClean == \E e \in CleanEnvs : Started(e)

NextClean ==
    \/ \E p \in Getters, path \in ServePaths : ServeBegin(p, "GET", path)
    \/ \E p \in Getters : ServeRead(p)
    \/ \E p \in Getters : ServeCheck(p)
    \/ \E p \in Getters : ServeLock(p)
    \/ \E p \in Getters : ServeDelete(p)
    \/ \E r \in RandReads : FaxBegin(CleanUpload, r, TRUE, TRUE)
    \/ FaxInsert(TRUE, TRUE)
    \/ SweepStart
    \/ SweepLock
    \/ SweepScan
    \/ Tick

\* while the sweep waits in Lock, memMu comes free again and again
DrainsForWriter == []<>(sweep.pc = "lock" => memMu = FreeMu)

TickerFires ==
    /\ DrainsForWriter
    /\ WF_vars(Tick)
    /\ WF_vars(SweepStart)
    /\ SF_vars(SweepLock)
    /\ WF_vars(SweepScan)
    /\ WF_vars(FaxInsert(TRUE, TRUE))
    /\ \A p \in Getters : WF_vars(ServeRead(p)) /\ WF_vars(ServeDelete(p))

SpecClean == InitClean /\ [][NextClean]_vars /\ TickerFires

----------------------------------------------------------------------------
(* The backend specification: every way of setting compliance mode, with   *)
(* and without an upload directory; uploads, retrievals and the cleanup    *)
(* goroutine at one instant.                                               *)

\* the ways LoadConfig reads compliance mode: not set, the -hipaa flag,
\* HIPAA_MODE in some casing, the HIPPA_MODE spelling with "1"
ModeEnvs ==
    {[h EXCEPT !.uploadDir = d] :
        h \in { NoEnv,
                [NoEnv EXCEPT !.hipaaFlag = TRUE],
                [NoEnv EXCEPT !.HIPAA_MODE = "True"],
                [NoEnv EXCEPT !.HIPPA_MODE = "1"] },
        d \in {<<>>, DataDir}}

InitMode == \E e \in ModeEnvs : Started(e)

NextMode ==
    \/ \E method \in {"GET", "POST"}, path \in ServePaths : ServeBegin("g1", method, path)
    \/ ServeRead("g1")
    \/ ServeCheck("g1")
    \/ \E req \in UploadRequests(app), r \in RandReads : FaxBegin(req, r, TRUE, TRUE)
    \/ FaxInsert(TRUE, TRUE)
    \/ SweepStart
    \/ SweepLock
    \/ SweepScan

SpecMode == InitMode /\ [][NextMode]_vars

----------------------------------------------------------------------------
(* The path specification: the disk backend under several upload           *)
(* directories and working directories, and every GET /media/ path over    *)
(* a small alphabet, routed by the ServeMux of main.                       *)

\* ServeMux's cleanPath: path.Clean of the rooted path, with the trailing
\* slash put back
cleanPath(path) ==
    IF path = <<>> THEN <<"/">>
    ELSE LET rooted == IF Head(path) = "/" THEN path ELSE <<"/">> \o path
             np == Clean(rooted)
         IN  IF rooted[Len(rooted)] = "/" /\ np # <<"/">> THEN np \o <<"/">> ELSE np

\* the answer of the ServeMux to a path that is not clean
MuxRedirect(location) == [from |-> "mux", status |-> 301, location |-> location]

\* mux.HandleFunc("/media/", app.handleMediaServe): the ServeMux redirects a
\* path that is not clean, and calls the handler with a clean one
MuxServe(p, method, path) ==
    IF cleanPath(path) # path
    THEN /\ get[p].pc = "idle"
         /\ out' = MuxRedirect(cleanPath(path))
         /\ UNCHANGED <<app, cwd, cleanupOn, now, uploadedFiles, memMu, disk, fax, get,
                        sweep, stores, jar>>
    ELSE ServeBegin(p, method, path)

\* the atoms of the requested paths
PathAtoms == {"/", ".", " ", "a"}

\* every sequence of at most n atoms
RECURSIVE AtomSeqs(_)
AtomSeqs(n) ==
    IF n = 0 THEN {<<>>}
    ELSE LET shorter == AtomSeqs(n - 1)
         IN  shorter \cup {Append(q, c) : q \in shorter, c \in PathAtoms}

PathTokens == AtomSeqs(MaxTokenLen)

\* the upload directories of the path specification
PathDirs == {<<"/", "data">>, <<"data">>, <<".", "/", "data", "/">>, <<".", ".">>}

\* the working directories of the path specification
PathCwds == {<<"/", "app">>, <<"/", "srv", "/", "app">>}

\* the directories that hold a file named a
FileDirs ==
    {<<"/">>, <<"/", "data">>, <<"/", "app">>, <<"/", "app", "/", "data">>,
     <<"/", "srv">>, <<"/", "srv", "/", "app">>, <<"/", "srv", "/", "app", "/", "data">>}

\* a file named a in each of them, holding the name of its directory
PathDisk == [f \in {Join(d, <<"a">>) : d \in FileDirs} |-> SubSeq(f, 1, Len(f) - 1)]

InitPath ==
    /\ \E d \in PathDirs : app = NewApp(LoadConfig([NoEnv EXCEPT !.uploadDir = d]))
    /\ cwd \in PathCwds
    /\ cleanupOn = FALSE
    /\ now = 0
    /\ uploadedFiles = EmptyMap
    /\ memMu = FreeMu
    /\ disk = PathDisk
    /\ fax = IdleFax
    /\ get = [p \in Getters |-> IdleGet]
    /\ sweep = [pc |-> "wait"]
    /\ stores = <<>>
    /\ jar = NoJar
    /\ out = NoResp

\* the disk branch keeps nothing between two retrievals: each run makes one
NextPath ==
    /\ out = NoResp
    /\ \E t \in PathTokens : MuxServe("g1", "GET", MediaPrefix \o t)

SpecPath == InitPath /\ [][NextPath]_vars

----------------------------------------------------------------------------
(* The session specification: signing in by password and by a provider,    *)
(* signing out, and requests for a protected page under the jar's cookie   *)
(* and under every cookie put together from a token and signatures.        *)

\* most dot-separated parts of a cookie a request makes up
MaxParts == 4

Passwords == {<<"pw">>, <<"bad">>, <<>>}

\* the environments of the sign-in specifications: open, a password with the
\* default secret, two providers and no secret, a password and a provider
\* with a secret of its own
AuthEnvs ==
    { NoEnv,
      [NoEnv EXCEPT !.AUTH_PASSWORD = <<"pw">>],
      [NoEnv EXCEPT !.GOOGLE_CLIENT_ID = "gid", !.MICROSOFT_CLIENT_ID = "mid"],
      [NoEnv EXCEPT !.AUTH_PASSWORD = <<"pw">>, !.GITHUB_CLIENT_ID = "hid",
                    !.SESSION_SECRET = <<"s", ".", "k">>] }

\* the parts of such a cookie: a token, its signature under the server's
\* secret, its signature under another secret
CookieParts(a) ==
    { IssuedToken, signSessionToken(IssuedToken, a.AuthConfig.SessionSecret),
      signSessionToken(IssuedToken, <<"guess">>) }

\* every cookie of one to MaxParts such parts, the empty cookie, and a token
\* and its signature without a label
CraftedCookies(a) ==
    {JoinWith(ps, ".") : ps \in UNION {[1..k -> CookieParts(a)] : k \in 1..MaxParts}}
    \cup {<<>>, SessionValue(IssuedToken, a.AuthConfig.SessionSecret, <<>>)}

PlainRoute ==
    [path |-> FaxesPath, method |-> "GET", cookie |-> None, id |-> "", fault |-> "none"]

PlainLogin ==
    [method |-> "POST", cookie |-> None, query |-> <<>>, formRedirect |-> None,
     password |-> <<>>, fault |-> "none"]

PlainCallback ==
    [path |-> AuthCallbackPrefix \o <<"google">>, stateCookie |-> <<"st">>,
     state |-> <<"st">>, redirectCookie |-> None]

OkRead == [err |-> FALSE, b |-> <<0>>]

InitSession == \E e \in AuthEnvs : Started(e)

NextSession ==
    \/ \E pw \in Passwords, r \in RandReads :
          Login([PlainLogin EXCEPT !.password = pw], r, TRUE)
    \/ \E p \in Providers, r \in RandReads :
          OAuthCallback([PlainCallback EXCEPT !.path = AuthCallbackPrefix \o p], "valid", r)
    \/ Logout
    \/ \E c \in CraftedCookies(app) \cup {jar.session, None} :
          Route([PlainRoute EXCEPT !.cookie = c], TRUE, TRUE, TRUE)

SpecSession == InitSession /\ [][NextSession]_vars

----------------------------------------------------------------------------
(* The label specification: requests behind requireAuth under one token,   *)
(* a verifying and a non-verifying signature and every label, while        *)
(* uploads fill the map, the sweep empties it and the clock moves.         *)

\* third parts of a session cookie: the labels setSessionCookie is called
\* with, one it is never called with, the empty one, one that holds a dot
Labels ==
    { <<"password">>, <<"google">>, <<"admin">>, <<>>, <<"a", ".", "b">> }

\* the cookies of the label specification
LabelCookies(a) ==
    {IssuedToken \o <<".">> \o sig \o <<".">> \o l :
        sig \in { signSessionToken(IssuedToken, a.AuthConfig.SessionSecret),
                  signSessionToken(IssuedToken, <<"guess">>) },
        l \in Labels}

\* a password with the memory backend, and the open configuration
LabelEnvs == { [NoEnv EXCEPT !.AUTH_PASSWORD = <<"pw">>], NoEnv }

InitLabel == \E e \in LabelEnvs : Started(e)

NextLabel ==
    \/ \E c \in LabelCookies(app) : Route([PlainRoute EXCEPT !.cookie = c], TRUE, TRUE, TRUE)
    \/ \E c \in LabelCookies(app) :
          FaxBegin([PlainForm(app) EXCEPT !.cookie = c, !.hasFile = TRUE, !.data = "abc",
                                          !.filename = <<"doc">>],
                   OkRead, TRUE, TRUE)
    \/ FaxInsert(TRUE, TRUE)
    \/ SweepStart
    \/ SweepLock
    \/ SweepScan
    \/ Tick

SpecLabel == InitLabel /\ [][NextLabel]_vars

----------------------------------------------------------------------------
(* The lifecycle specification: signing in and out while days pass; the    *)
(* browser drops a cookie whose Max-Age has passed, and requests come      *)
(* under the browser's cookie and under the client's copy.                 *)

\* a day passes: the browser drops the session cookie once the Max-Age that
\* setSessionCookie gave it has passed
DayPasses ==
    /\ now < MaxTicks * sessionMaxAge
    /\ now' = now + sessionMaxAge
    /\ jar' = IF jar.session # None /\ now' > jar.copy.at + sessionMaxAge
              THEN [jar EXCEPT !.session = None]
              ELSE jar
    /\ UNCHANGED <<app, cwd, cleanupOn, uploadedFiles, memMu, disk, fax, get, sweep,
                   stores, out>>

LifeEnvs ==
    { [NoEnv EXCEPT !.AUTH_PASSWORD = <<"pw">>],
      [NoEnv EXCEPT !.GOOGLE_CLIENT_ID = "gid", !.SESSION_SECRET = <<"k">>] }

InitLife == \E e \in LifeEnvs : Started(e)

NextLife ==
    \/ \E pw \in Passwords, r \in RandReads :
          Login([PlainLogin EXCEPT !.password = pw], r, TRUE)
    \/ \E r \in RandReads : OAuthCallback(PlainCallback, "valid", r)
    \/ Logout
    \/ \E c \in {jar.session, jar.copy.value, None} :
          Route([PlainRoute EXCEPT !.cookie = c], TRUE, TRUE, TRUE)
    \/ DayPasses

SpecLife == InitLife /\ [][NextLife]_vars

----------------------------------------------------------------------------
(* The sign-in specification: /login, /logout, /auth/login/ and            *)
(* /auth/callback/ under every redirect target, and a protected page.      *)

\* redirect targets a request supplies: none, a page, a page by an unclean
\* path, a protocol-relative one written plainly and with a byte no cookie
\* holds, an absolute one
Targets ==
    { <<>>, <<"/", "faxes">>, <<"/", ".", "/", "faxes">>,
      <<"/", "/", "evil">>, <<"/", ";", "/", "evil">>,
      <<"http:", "/", "/", "evil">> }

Forged == <<"forged">>

FailedRead == [err |-> TRUE, b |-> <<>>]

\* the requests for /login under the session cookie c, with the read of the
\* random source and whether the template renders: a GET under every target,
\* a GET whose page fails, a POST carrying the target in its body or in its
\* URL under every password, a POST that does not parse
LoginCases(c) ==
    {[req |-> [PlainLogin EXCEPT !.method = "GET", !.cookie = c, !.query = t],
      r |-> OkRead, tmplOK |-> TRUE] : t \in Targets}
    \cup {[req |-> [PlainLogin EXCEPT !.method = "GET", !.cookie = c],
           r |-> OkRead, tmplOK |-> FALSE]}
    \cup {[req |-> [PlainLogin EXCEPT !.cookie = c, !.formRedirect = t, !.password = pw],
           r |-> r, tmplOK |-> TRUE] :
            t \in Targets, pw \in Passwords, r \in {OkRead, FailedRead}}
    \cup {[req |-> [PlainLogin EXCEPT !.cookie = c, !.query = t, !.password = pw],
           r |-> OkRead, tmplOK |-> TRUE] :
            t \in {<<"/", "faxes">>, <<"/", "/", "evil">>}, pw \in Passwords}
    \cup {[req |-> [PlainLogin EXCEPT !.cookie = c, !.fault = "parse"],
           r |-> OkRead, tmplOK |-> TRUE]}

ProviderNames == Providers \cup {<<"other">>}

\* what the provider says of the code, and the read of the random source
CallbackOutcomes ==
    {<<"error", OkRead>>, <<"invalid", OkRead>>, <<"valid", OkRead>>,
     <<"valid", FailedRead>>}

\* the requests for /auth/callback/ with their outcomes. The cookies are
\* those of the jar or made up, the state parameter the one the provider
\* was given or made up: every pairing of them with a code the provider
\* takes, and with the state matching every provider and outcome
CallbackCases(j) ==
    {[req |-> [path |-> AuthCallbackPrefix \o p, stateCookie |-> sc, state |-> st,
               redirectCookie |-> rc],
      o |-> <<"valid", OkRead>>] :
        p \in {<<"google">>, <<"github">>},
        sc \in {j.oauth_state, None, Forged},
        st \in {IF j.oauth_state = None THEN <<>> ELSE j.oauth_state, Forged},
        rc \in {j.oauth_redirect, None}}
    \cup {[req |-> [path |-> AuthCallbackPrefix \o p, stateCookie |-> sc, state |-> sc,
                    redirectCookie |-> rc],
           o |-> o] :
            p \in ProviderNames, sc \in {j.oauth_state, Forged} \ {None},
            rc \in {j.oauth_redirect, None}, o \in CallbackOutcomes}

InitAuth == \E e \in AuthEnvs : Started(e)

NextAuth ==
    \/ \E c \in {jar.session, None} :
          \E x \in LoginCases(c) : Login(x.req, x.r, x.tmplOK)
    \/ Logout
    \/ \E p \in ProviderNames, t \in Targets, r \in RandReads :
          OAuthLogin(AuthLoginPrefix \o p, t, r)
    \/ \E x \in CallbackCases(jar) : OAuthCallback(x.req, x.o[1], x.o[2])

SpecAuth == InitAuth /\ [][NextAuth]_vars

----------------------------------------------------------------------------
(* The gate specification: every route behind requireAuth under every      *)
(* method and cookie, POST /fax with its uploads, and /login and /logout.  *)

\* a password and the settings page over the memory backend, a password
\* over the disk backend, no sign-in at all
WebEnvs ==
    { [NoEnv EXCEPT !.AUTH_PASSWORD = <<"pw">>, !.faxAppID = "app1"],
      [NoEnv EXCEPT !.AUTH_PASSWORD = <<"pw">>, !.uploadDir = DataDir],
      [NoEnv EXCEPT !.faxAppID = "app1"],
      [NoEnv EXCEPT !.HIPAA_MODE = "true", !.uploadDir = DataDir] }

ProtectedPaths == {HomePath, FaxPath, FaxesPath, SettingsPath, OtherPath}

\* what the fax API and the templates do: all fine, or one of them failing
Fine == <<TRUE, TRUE, TRUE>>

Outcomes == {Fine, <<FALSE, TRUE, TRUE>>, <<TRUE, FALSE, TRUE>>, <<TRUE, TRUE, FALSE>>}

\* the requests behind requireAuth other than a POST /fax, with their
\* outcomes: every path under every method and cookie, and under the
\* server's cookie a fax by its id, a settings form that does not parse, and
\* every page with every outcome
RouteCases(a, j) ==
    {[req |-> [PlainRoute EXCEPT !.path = p, !.method = m, !.cookie = c], o |-> Fine] :
        p \in ProtectedPaths, m \in {"GET", "POST", "PUT"},
        c \in KnownCookies(a) \cup {j.session}}
    \cup {[req |-> [PlainRoute EXCEPT !.path = SettingsPath, !.method = "POST",
                                      !.cookie = ServerCookie(a), !.fault = "parse"],
           o |-> Fine]}
    \cup {[req |-> [PlainRoute EXCEPT !.path = p, !.method = m, !.id = "f1",
                                      !.cookie = ServerCookie(a)], o |-> o] :
            p \in ProtectedPaths, m \in {"GET", "POST"}, o \in Outcomes}

\* the POST /fax requests with their outcomes and reads of the random
\* source: every request with all fine, an upload and a media URL with the
\* API or the template failing
FaxCases(a) ==
    {[req |-> q, r |-> r, o |-> Fine] : q \in FaxRequests(a), r \in {OkRead}}
    \cup {[req |-> [PlainForm(a) EXCEPT !.hasFile = TRUE, !.data = "abc"],
           r |-> FailedRead, o |-> Fine]}
    \cup {[req |-> [PlainForm(a) EXCEPT !.hasFile = TRUE, !.data = "abc",
                                        !.storePreview = TRUE, !.storeMedia = TRUE],
           r |-> OkRead, o |-> Fine]}
    \cup {[req |-> q, r |-> OkRead, o |-> o] :
            q \in {[PlainForm(a) EXCEPT !.mediaURL = RemoteDoc],
                   [PlainForm(a) EXCEPT !.hasFile = TRUE, !.data = "abc"]},
            o \in {<<FALSE, TRUE, TRUE>>, <<TRUE, TRUE, FALSE>>}}

InitWeb == \E e \in WebEnvs : Started(e)

NextWeb ==
    \/ \E x \in RouteCases(app, jar) : Route(x.req, x.o[1], x.o[2], x.o[3])
    \/ \E x \in FaxCases(app) : FaxBegin(x.req, x.r, x.o[1], x.o[3])
    \/ \E o \in Outcomes : FaxInsert(o[1], o[3])
    \/ \E pw \in Passwords, r \in RandReads :
          Login([PlainLogin EXCEPT !.password = pw], r, TRUE)
    \/ Logout

SpecWeb == InitWeb /\ [][NextWeb]_vars

----------------------------------------------------------------------------
(* Properties of the media store.                                          *)

\* the stores that returned the token
StoresOf(token) == {i \in 1..Len(stores) : stores[i].token = token}

\* the store is the only one that returned its token
SoleStore(i) == StoresOf(stores[i].token) = {i}

\* the content type a retrieval of the store is to answer with
TypeOf(i) == IF stores[i].ctype = "" THEN "application/octet-stream" ELSE stores[i].ctype

\* the entry of the store has not expired at time t
Live(i, t) == t <= stores[i].at + FileTTL

\* the memory stores whose token no other store returned
SoleMemoryStores ==
    {i \in 1..Len(stores) : stores[i].backend = "memory" /\ SoleStore(i)}

\* the entry a retrieval of the token of store i reads from the map, while
\* the entry of the store has not expired, is the entry of the store
ReadsStore(p, i) ==
    (/\ get[p].pc = "read" /\ get'[p].pc = "check"
     /\ get[p].token = stores[i].token
     /\ Live(i, now))
    => /\ get'[p].ok
       /\ get'[p].file.Data = stores[i].data
       /\ get'[p].file.Type = TypeOf(i)
       /\ get'[p].file.ExpiresAt = stores[i].at + FileTTL

RoundTripRead == \A p \in Getters : \A i \in SoleMemoryStores : ReadsStore(p, i)

\* the copy a retrieval holds is the payload, the content type and the
\* expiry of the store
RoundTripCopy ==
    \A p \in Getters : \A i \in SoleMemoryStores :
        (get[p].pc = "check" /\ get[p].ok /\ get[p].token = stores[i].token)
        => /\ get[p].file.Data = stores[i].data
           /\ get[p].file.Type = TypeOf(i)
           /\ get[p].file.ExpiresAt = stores[i].at + FileTTL

\* a retrieval that holds a copy and checks it before its expiry answers 200
\* with the payload and the content type of the store
RoundTripServe ==
    \A p \in Getters : \A i \in SoleMemoryStores :
        (/\ get[p].pc = "check" /\ get'[p].pc # "check"
         /\ get[p].ok /\ get[p].token = stores[i].token
         /\ Live(i, now))
        => out' = Answer(200, stores[i].token, stores[i].data, TypeOf(i), None)

LazyCheck ==
    \A p \in Getters :
        (/\ get[p].pc = "check" /\ get'[p] # get[p]
         /\ get[p].ok /\ now > get[p].file.ExpiresAt)
        => get'[p] = [pc |-> "lock", token |-> get[p].token] /\ out' = out

\* a retrieval on its way to the delete does nothing else
LazyLock ==
    \A p \in Getters :
        (get[p].pc = "lock" /\ get'[p] # get[p])
        => get'[p] = [pc |-> "delete", token |-> get[p].token] /\ out' = out

\* the delete leaves the token absent and answers not found
LazyDelete ==
    \A p \in Getters :
        (get[p].pc = "delete" /\ get'[p] # get[p])
        => /\ get[p].token \notin DOMAIN uploadedFiles'
           /\ out' = Answer(404, get[p].token, "", "", None)
           /\ get'[p] = IdleGet

\* a retrieval that finds no entry answers not found and leaves the token absent
LazyAbsent ==
    \A p \in Getters :
        (get[p].pc = "check" /\ get'[p] # get[p] /\ ~get[p].ok)
        => /\ out' = Answer(404, get[p].token, "", "", None)
           /\ uploadedFiles' = uploadedFiles

\* C2: lazy expiry is authoritative. In memory mode a retrieval that checks
\* the entry it read after the entry's ExpiresAt has passed never serves it:
\* it deletes the token from the map and answers not found, and a retrieval
\* that finds the entry already removed answers not found, whether the sweep
\* has run or not.
LazyExpiry == [][LazyCheck /\ LazyLock /\ LazyDelete /\ LazyAbsent]_vars

\* C2 witness: a retrieval is about to delete an expired entry that no sweep
\* has removed
LazyExpiryWitness ==
    \E p \in Getters :
        /\ get[p].pc = "delete"
        /\ get[p].token \in DOMAIN uploadedFiles
        /\ now > uploadedFiles[get[p].token].ExpiresAt

\* the tokens of the stores are pairwise distinct
Distinct(h) == \A i \in 1..Len(h) : \A j \in 1..Len(h) : i # j => h[i].token # h[j].token

\* the tokens the stores have returned
Returned(h) == {h[i].token : i \in 1..Len(h)}

\* a token enters the map only in the step in which a store returns it
InsertedByStore ==
    \A t \in DOMAIN uploadedFiles' \ DOMAIN uploadedFiles :
        /\ Len(stores') = Len(stores) + 1
        /\ stores'[Len(stores')].token = t

\* while no two stores have returned the same token, no step changes an
\* entry of the map and no step makes a returned token present again
NoReuse ==
    Distinct(stores')
    => /\ \A t \in DOMAIN uploadedFiles \cap DOMAIN uploadedFiles' :
              uploadedFiles'[t] = uploadedFiles[t]
       /\ \A t \in Returned(stores) \ DOMAIN uploadedFiles :
              t \notin DOMAIN uploadedFiles'

Elems(path) == SelectSeq(Split(path, "/"), LAMBDA e : e # <<>>)

\* the file or directory at path lies strictly under the directory at dir
StrictlyUnder(path, dir) ==
    /\ Len(Elems(path)) > Len(Elems(dir))
    /\ SubSeq(Elems(path), 1, Len(Elems(dir))) = Elems(dir)

\* C4 as stated: disk-backend retrieval never serves a path outside the
\* upload directory. Whenever handleMediaServe answers with a file, the file
\* lies strictly under the upload directory.
ServesUnderUploadDir ==
    (out.from = "media" /\ out.status = 200)
    => StrictlyUnder(Resolve(cwd, out.served), Resolve(cwd, app.UploadDir))

\* the answers of the routes behind requireAuth
Gated == {"route", "fax"}

\* the answer is requireAuth's redirect to the login page
SentToLogin(o) == o.status = 303 /\ HasPrefix(o.location, LoginPath)

\* the places of the dots of a cookie
Dots(c) == {i \in 1..Len(c) : c[i] = "."}

FirstDot(c) == CHOOSE i \in Dots(c) : \A j \in Dots(c) : i <= j

SecondDot(c) == CHOOSE i \in Dots(c) \ {FirstDot(c)} : \A j \in Dots(c) \ {FirstDot(c)} : i <= j

\* the token part and the signature part of a cookie that holds two dots
TokenPart(c) == SubSeq(c, 1, FirstDot(c) - 1)

SignaturePart(c) == SubSeq(c, FirstDot(c) + 1, SecondDot(c) - 1)

\* the signature part is the HMAC of the token part under the server's secret
Verifies(c) == SignaturePart(c) = signSessionToken(TokenPart(c), app.AuthConfig.SessionSecret)

\* some sign-in method is configured
Configured ==
    \/ app.AuthConfig.Password # <<>>
    \/ app.AuthConfig.GoogleClientID # ""
    \/ app.AuthConfig.MicrosoftClientID # ""
    \/ app.AuthConfig.GitHubClientID # ""

\* a request under the cookie of the jar, which setSessionCookie set, is let
\* through
IssuedAccepted ==
    (out'.from \in Gated /\ jar.session # None /\ out'.cookie = jar.session)
    => ~SentToLogin(out')

\* a request under a cookie of two dots or more whose signature part is not
\* the HMAC of its token part is sent to the login page
BadSignatureRejected ==
    ( /\ out.from \in Gated
      /\ out.cookie # None
      /\ Cardinality(Dots(out.cookie)) >= 2
      /\ ~Verifies(out.cookie) )
    => SentToLogin(out)

\* C6: session issue/verify round trip. For every identity label the cookie
\* setSessionCookie sets is accepted by isAuthenticated on every later
\* request, whatever happened in between; and on a server with a sign-in
\* method configured every cookie whose signature part differs from the HMAC
\* of its token part under the server's secret is rejected.
SessionRoundTrip ==
    [][IssuedAccepted]_vars /\ [](Configured => BadSignatureRejected)

\* C6 witness: a provider's sign-in set the cookie of the jar, a later request
\* under it was let through, and so was none under a wrong signature
SessionRoundTripWitness ==
    /\ Configured
    /\ jar.session # None
    /\ Cardinality(Dots(jar.session)) = 2
    /\ SubSeq(jar.session, SecondDot(jar.session) + 1, Len(jar.session)) = <<"github">>
    /\ out.from = "route"
    /\ out.cookie = jar.session
    /\ out.status = 200

\* C6 as stated: the round trip, and every cookie whose signature part
\* differs from the HMAC of its token part is rejected on every server
SessionRoundTripAnyServer ==
    [][IssuedAccepted]_vars /\ []BadSignatureRejected

\* the cookie is one isAuthenticated reads as token, signature and label: it
\* holds two dots or more, and what stands between the first two is the HMAC
\* of what stands before the first
WellSigned(c) == c # None /\ Cardinality(Dots(c)) >= 2 /\ Verifies(c)

\* C7: a request is let through if and only if no sign-in method is
\* configured, or its session cookie, cut at its first two dots, gives a
\* token, a signature that is the HMAC of the token under the server's
\* secret, and a label, which may hold dots itself and is not looked at. No
\* cookie, a cookie of fewer than two dots and a signature that does not
\* verify are sent to the login page whenever a method is configured.
AuthenticatedIff ==
    out.from \in Gated
    => (~SentToLogin(out) <=> (~Configured \/ WellSigned(out.cookie)))

\* C7 witness: with a method configured, a cookie of three dots whose first
\* two parts verify was let through, so its label holds a dot
AuthenticatedIffWitness ==
    /\ Configured
    /\ out.from = "route"
    /\ out.cookie # None
    /\ Cardinality(Dots(out.cookie)) = 3
    /\ Verifies(out.cookie)
    /\ out.status = 200

\* C7 as stated: the cookie splits into exactly three dot-separated parts
AuthenticatedIffThreeParts ==
    out.from \in Gated
    => (~SentToLogin(out)
        <=> \/ ~Configured
            \/ /\ out.cookie # None
               /\ Len(Split(out.cookie, ".")) = 3
               /\ Verifies(out.cookie))

\* the answer to a request isAuthenticated does not accept is the redirect to
\* /login that carries the requested path, and no call to the fax API was
\* made; the answer to one it accepts is the handler's; an upload waiting for
\* the map came with a request it accepts
GateState ==
    /\ out.from \in Gated =>
          IF isAuthenticated(app, out.cookie)
          THEN ~SentToLogin(out)
          ELSE /\ out.status = 303
               /\ out.location = <<"/", "login", "?", "redirect=">> \o out.path
               /\ out.api = <<>>
    /\ fax.pc = "insert" => isAuthenticated(app, fax.cookie)

\* every step that writes a file, returns a store, takes the upload's lock or
\* inserts into the map belongs to a request isAuthenticated accepts
GateStep ==
    /\ (disk' # disk \/ (stores' # stores /\ fax.pc = "idle"))
          => (out'.from = "fax" /\ isAuthenticated(app, out'.cookie))
    /\ (fax.pc = "idle" /\ fax'.pc = "insert") => isAuthenticated(app, fax'.cookie)
    /\ (uploadedFiles' # uploadedFiles \/ memMu' # memMu)
          => ((fax.pc = "insert" /\ isAuthenticated(app, fax.cookie))
              \/ (fax'.pc = "insert" /\ isAuthenticated(app, fax'.cookie)))

\* C8: the gate runs before the route's logic. On /, /fax, /faxes and
\* /settings (and every other path the pattern "/" takes) the handler runs
\* only for a request isAuthenticated accepts; any other request uploads
\* nothing, leaves the map as it is, calls no API and is answered with
\* 303 to /login?redirect=<the requested path>.
GateBeforeHandler == [][GateStep]_vars /\ []GateState

\* C8 witness: after a store by a signed-in request, an upload under a cookie
\* signed with another secret was sent to the login page
GateBeforeHandlerWitness ==
    /\ Configured
    /\ Len(stores) = 1
    /\ out.from = "fax"
    /\ out.cookie # None
    /\ ~isAuthenticated(app, out.cookie)
    /\ out.status = 303
    /\ out.location = <<"/", "login", "?", "redirect=", "/", "fax">>

\* the request's oauth_state cookie is there and equals its state parameter
StateMatches(o) == o.stateCookie # None /\ o.stateCookie = o.state

\* an answer of the callback that exchanged the code or set a session cookie
\* belongs to a request whose state matched; any other request got 400 with
\* nothing exchanged and nothing set
StateGate ==
    out.from = "callback" =>
        /\ (out.exchanged \/ out.issued # None) => StateMatches(out)
        /\ ~StateMatches(out) =>
              (out.status = 400 /\ ~out.exchanged /\ out.issued = None)

\* a callback whose state did not match leaves the cookies of the jar alone
StateGateStep ==
    (out'.from = "callback" /\ out' # out /\ ~StateMatches(out')) => jar' = jar

\* C9: completion of a provider's sign-in is gated on the anti-forgery state.
\* handleOAuthCallback exchanges the code and sets a session cookie only when
\* the request carries an oauth_state cookie whose value equals its state
\* parameter; without the cookie or with a different value it answers 400,
\* exchanges nothing and sets no cookie, whatever the provider would have
\* said of the code.
CallbackStateGated == [][StateGateStep]_vars /\ []StateGate

\* C9 witness: after handleOAuthLogin put a state in the jar, a callback that
\* carried the cookie and another state parameter was answered 400
CallbackStateGatedWitness ==
    /\ out.from = "callback"
    /\ jar.oauth_state # None
    /\ jar.oauth_state # <<>>
    /\ out.stateCookie = jar.oauth_state
    /\ out.state = Forged
    /\ out.status = 400
    /\ ~out.exchanged

\* a target that begins with "/" and not with "//"
SameSite(t) == t # <<>> /\ t # None /\ t[1] = "/" /\ (Len(t) >= 2 => t[2] # "/")

\* the target a password login carries on: the Location after a match, the
\* redirect parameter of the Location after a mismatch
CarriedTarget(o) ==
    IF o.issued # None THEN o.location
    ELSE TrimPrefix(o.location, <<"/", "login", "?", "error=invalid&redirect=">>)

\* the answers the claim is about: the redirects of handlePasswordLogin and
\* of handleOAuthCallback
PostLogin(o) ==
    \/ o.from = "login" /\ o.branch = "password" /\ o.status = 303
    \/ o.from = "callback" /\ o.status = 303

PostTarget(o) == IF o.from = "login" THEN CarriedTarget(o) ELSE o.location

\* C10: open-redirect defence. After a password login, matched or not, and
\* after the completion of a provider's sign-in, the location carried on is
\* the supplied target (as http.Redirect writes it, its path cleaned) only
\* when that begins with "/" and not with "//"; an absent or empty target, a
\* protocol-relative one and an absolute one are replaced by "/".
RedirectValidated ==
    PostLogin(out) =>
        /\ SameSite(PostTarget(out))
        /\ ~SameSite(out.supplied) => PostTarget(out) = <<"/">>
        /\ SameSite(out.supplied) => PostTarget(out) \in {out.supplied, Clean(out.supplied)}

\* C10 witness: a sign-in by a provider was completed under an oauth_redirect
\* cookie holding //evil, and the location is /
RedirectValidatedWitness ==
    /\ out.from = "callback"
    /\ out.status = 303
    /\ out.issued # None
    /\ out.supplied = <<"/", "/", "evil">>
    /\ out.location = <<"/">>

\* the client's copy of the credential is past its end: its session was
\* logged out, or more than sessionMaxAge has passed since it was issued
Destroyed ==
    /\ jar.copy.value # None
    /\ (jar.copy.loggedOut \/ now > jar.copy.at + sessionMaxAge)

\* C11: session lifecycle. A credential is valid from its issuance until a
\* logout or until 24 hours have passed; a request that presents it after
\* the logout or after the 24 hours is sent to the login page.
SessionEnds ==
    [][(out'.from \in Gated /\ out' # out /\ out'.cookie = jar.copy.value /\ Destroyed)
       => SentToLogin(out')]_vars

\* no store returned an empty token or a name that is an extension alone,
\* and the map holds no empty key
StoresHoldTokens ==
    /\ \A i \in 1..Len(stores) : stores[i].token # <<>> /\ Head(stores[i].token) # "."
    /\ <<>> \notin DOMAIN uploadedFiles

\* the session cookie of the jar begins with a token
SessionHoldsToken ==
    jar.session # None => (jar.session # <<>> /\ Head(jar.session) # ".")

\* the oauth_state cookie and the state of the redirect to the provider are
\* tokens
StateHoldsToken ==
    /\ jar.oauth_state # <<>>
    /\ (out.from = "oauthlogin" /\ out.status = 307) => out.state # <<>>

\* C12: a failure of the random source is fatal to the operation that asked
\* for a token. A read of crypto/rand that succeeds gives a token that is not
\* empty, so: no store, in memory or on disk, returns or inserts an empty
\* token; no session cookie is set without its token; handleOAuthLogin sets
\* no empty oauth_state cookie and redirects with no empty state.
TokenFailureFatal == StoresHoldTokens /\ SessionHoldsToken /\ StateHoldsToken

\* an answer of handlePasswordLogin
ByPassword(o) == o.from = "login" /\ o.branch = "password"

\* the answer redirects back to the login page with the error marker
BackToLogin(o) ==
    /\ o.status = 303
    /\ HasPrefix(o.location, <<"/", "login", "?", "error=invalid&redirect=">>)

\* the answer sets a session cookie labelled "password" and redirects to the
\* target
SignedIn(o) ==
    /\ o.issued # None
    /\ Cardinality(Dots(o.issued)) = 2
    /\ SubSeq(o.issued, SecondDot(o.issued) + 1, Len(o.issued)) = <<"password">>
    /\ o.status = 303
    /\ SameSite(o.location)
    /\ ~BackToLogin(o)

\* the form parsed and its password is the configured one
Matched(o) == o.password # None /\ o.password = app.AuthConfig.Password

\* what handlePasswordLogin answers: 400 and no cookie to a form that does
\* not parse; to a matching password the session cookie and the redirect
\* to the target, or 500 and no cookie when no token could be generated; to
\* any other password no cookie and the redirect back to the login page
PasswordAnswer ==
    ByPassword(out) =>
        /\ out.password = None <=> out.status = 400
        /\ out.issued # None => (Matched(out) /\ SignedIn(out))
        /\ Matched(out) => (SignedIn(out) \/ (out.status = 500 /\ out.issued = None))
        /\ (out.password # None /\ ~Matched(out)) => (out.issued = None /\ BackToLogin(out))

\* a /login puts into the jar the cookie its answer set, and nothing else
PasswordStep ==
    (out'.from = "login" /\ jar'.session # jar.session) => out'.issued = jar'.session

\* C13: password login issues a credential exactly on a match. When the
\* form parses and a session token can be generated, handlePasswordLogin sets
\* a session cookie labelled "password" and redirects to the validated target
\* if and only if the submitted password equals the configured one; to any
\* other password it sets no cookie and redirects back to /login with the
\* error marker, however many failures came before. A matching password
\* whose token cannot be generated gets 500 and no cookie, a form that does
\* not parse 400 and no cookie.
PasswordExactly == [][PasswordStep]_vars /\ []PasswordAnswer

\* C13 witness: a matching password was answered with the cookie and the
\* redirect to the page it asked for
PasswordExactlyWitness ==
    /\ ByPassword(out)
    /\ app.AuthConfig.Password = <<"pw">>
    /\ out.password = <<"pw">>
    /\ SignedIn(out)
    /\ out.location = <<"/", "faxes">>
    /\ jar.session = out.issued

\* C13 as stated: the cookie and the redirect to the target if and only if
\* the password matches, and the redirect back to /login with the error
\* marker on every other submission
PasswordExactlyAlways ==
    ByPassword(out) =>
        /\ SignedIn(out) <=> Matched(out)
        /\ ~Matched(out) => (out.issued = None /\ BackToLogin(out))

\* some call to the fax API that the request made failed
ApiFailed(o) == \E i \in 1..Len(o.api) : ~o.api[i].ok

\* no operation of the fax API was called twice by the request
CalledOnce(o) ==
    \A i, j \in 1..Len(o.api) : o.api[i].op = o.api[j].op => i = j

\* a request whose call failed is answered with a 5xx status, and no request
\* calls an operation twice
FailureAnswered ==
    out.from \in Gated =>
        /\ ApiFailed(out) => out.status \in 500..599
        /\ CalledOnce(out)

\* the answer to a failed Faxes.New leaves the upload of the request
\* finished and the map's lock free of it
FailureReleases ==
    (out'.from = "fax" /\ out' # out /\ ApiFailed(out'))
    => (fax'.pc = "idle" /\ memMu'.w # "fax")

\* C14: every failure of a call to the fax API (Faxes.New, Faxes.Get,
\* Faxes.List, FaxApplications.Get, FaxApplications.Update) ends the request
\* with a 5xx answer, the call is made once per request, and the process
\* goes on serving.
ApiFailureGateway == [][FailureReleases]_vars /\ []FailureAnswered

\* the Faxes.New calls of the answer
Creates(o) == {i \in 1..Len(o.api) : o.api[i].op = "Faxes.New"}

\* C15: in HIPAA mode the provider's store flags are forced off. Whenever
\* Hipaa is set, every Faxes.New call of handleSendFax carries
\* StorePreview = false and StoreMedia = false, whether the form asked for
\* store_preview and store_media or not.
HipaaStoresNothing ==
    (app.Hipaa /\ out.from = "fax") =>
        \A i \in Creates(out) :
            out.api[i].StorePreview = "false" /\ out.api[i].StoreMedia = "false"

\* C15 witness: in HIPAA mode a form that asked for both flags was sent on
\* with both off
HipaaStoresNothingWitness ==
    /\ app.Hipaa
    /\ out.from = "fax"
    /\ out.asked = Asked(TRUE, TRUE)
    /\ out.status = 200
    /\ Creates(out) # {}
    /\ \A i \in Creates(out) :
          out.api[i].StorePreview = "false" /\ out.api[i].StoreMedia = "false"

\* a step that ends one run of cleanupExpiredFiles
SweepRuns == sweep.pc = "scan" /\ sweep'.pc = "wait"

\* C16: postcondition and frame of the sweep. One run of
\* cleanupExpiredFiles holds the write lock while it scans; it removes every
\* entry whose ExpiresAt is before the timestamp the run took and removes or
\* alters no other entry, so the map after the run holds exactly the entries
\* that were present and unexpired at that timestamp.
SweepExact ==
    [][SweepRuns =>
         /\ memMu.w = "sweep" /\ memMu.r = {}
         /\ DOMAIN uploadedFiles' =
                {k \in DOMAIN uploadedFiles : uploadedFiles[k].ExpiresAt >= sweep.now}
         /\ \A k \in DOMAIN uploadedFiles' : uploadedFiles'[k] = uploadedFiles[k]
         /\ memMu'.w = "none"]_vars

\* C16 witness: a sweep has run over an expired and an unexpired entry. The
\* second store was inserted before the first expired and its answer is
\* still the last one, so no retrieval has deleted anything since; the first
\* store's token is gone, the second store's entry is there as stored.
SweepExactWitness ==
    /\ Len(stores) = 2
    /\ stores[1].backend = "memory" /\ stores[2].backend = "memory"
    /\ stores[1].token # stores[2].token
    /\ stores[2].at <= stores[1].at + FileTTL
    /\ out.from = "fax"
    /\ sweep.pc = "wait" /\ memMu = FreeMu
    /\ stores[1].token \notin DOMAIN uploadedFiles
    /\ stores[2].token \in DOMAIN uploadedFiles
    /\ uploadedFiles[stores[2].token] =
          NewEntry(stores[2].data, stores[2].ctype, stores[2].at)

\* the goroutines between a.memMu.Lock() and Unlock(): the store at its
\* insertion, a retrieval at its delete, the sweep at its loop
Writers ==
    (IF fax.pc = "insert" THEN {"fax"} ELSE {})
    \cup {p \in Getters : get[p].pc = "delete"}
    \cup (IF sweep.pc = "scan" THEN {"sweep"} ELSE {})

\* the retrievals between a.memMu.RLock() and RUnlock()
Readers == {p \in Getters : get[p].pc = "read"}

\* at most one writer, and it is the holder of the write lock; the readers
\* are the holders of the read lock; a writer excludes every reader
Exclusion ==
    /\ Writers = (IF memMu.w = "none" THEN {} ELSE {memMu.w})
    /\ Readers = memMu.r
    /\ Writers # {} => Readers = {}

\* the steps that access the map: the insertion of a store, the delete of
\* a retrieval, the loop of the sweep, the lookup of a retrieval
Inserts == fax.pc = "insert" /\ fax'.pc = "idle"

Deletes(p) == get[p].pc = "delete" /\ get'[p].pc = "idle"

LooksUp(p) == get[p].pc = "read" /\ get'[p].pc = "check"

\* the map changes in no other step, and each access is made by a holder
\* of the lock in the mode the access needs
LockedAccess ==
    /\ uploadedFiles' # uploadedFiles =>
          Inserts \/ SweepRuns \/ \E p \in Getters : Deletes(p)
    /\ Inserts => memMu = [w |-> "fax", r |-> {}]
    /\ SweepRuns => memMu = [w |-> "sweep", r |-> {}]
    /\ \A p \in Getters : Deletes(p) => memMu = [w |-> p, r |-> {}]
    /\ \A p \in Getters : LooksUp(p) => p \in memMu.r /\ memMu.w = "none"

\* C17: lock discipline on the shared map. Every lookup in uploadedFiles is
\* made while memMu is held for reading and every insertion, delete and
\* sweep while it is held for writing, so in every reachable state a writer
\* (store, lazy expiry, sweep) overlaps no other writer and no reader, while
\* retrievals may read together.
LockDiscipline == []Exclusion /\ [][LockedAccess]_vars

\* C17 witness: two retrievals hold the read lock together while a store
\* whose token is in the map has been made and the sweep waits for the lock
LockDisciplineWitness ==
    /\ memMu.r = Getters
    /\ Readers = Getters
    /\ sweep.pc = "lock"
    /\ uploadedFiles # EmptyMap

\* the delete of a lazy expiry whose token is already gone changes nothing
DeleteAbsentNoop ==
    \A p \in Getters :
        (Deletes(p) /\ get[p].token \notin DOMAIN uploadedFiles)
        => uploadedFiles' = uploadedFiles

\* the delete of a lazy expiry leaves its token absent and removes no
\* other token
ExpiredEndsAbsent ==
    \A p \in Getters :
        Deletes(p) => DOMAIN uploadedFiles' = DOMAIN uploadedFiles \ {get[p].token}

\* every entry a step removes from the map has expired
OnlyExpiredRemoved ==
    \A k \in DOMAIN uploadedFiles \ DOMAIN uploadedFiles' :
        now > uploadedFiles[k].ExpiresAt

Instants == {i * TickStep : i \in 0..MaxTicks}

\* the entries a store of the model can insert
Entries == {NewEntry(CleanUpload.data, CleanUpload.ctype, t) : t \in Instants}

\* the map holds the entry e under the token k
Holds(k, e) == k \in DOMAIN uploadedFiles /\ uploadedFiles[k] = e

\* every entry the clock can outlive leaves the map
EventuallyRemoved ==
    \A k \in Tokens : \A e \in Entries :
        (Holds(k, e) /\ e.ExpiresAt < MaxTicks * TickStep) ~> ~Holds(k, e)

\* a sweep that took its timestamp after the expiry of an entry leaves the
\* entry's token absent
SweepCleans ==
    SweepRuns =>
        \A k \in DOMAIN uploadedFiles :
            sweep.now > uploadedFiles[k].ExpiresAt => k \notin DOMAIN uploadedFiles'

\* a retrieval that checks its copy after the copy's expiry serves nothing
\* and goes on to the delete, which leaves the token absent
RetrievalCleans ==
    \A p \in Getters :
        /\ (get[p].pc = "check" /\ get'[p] # get[p] /\ get[p].ok
               /\ now > get[p].file.ExpiresAt)
           => get'[p].pc = "lock" /\ out' = out
        /\ get[p].pc = "lock" => get'[p].pc \in {"lock", "delete"}
        /\ Deletes(p) => get[p].token \notin DOMAIN uploadedFiles'

\* C19: memory mode is self-cleaning. With the cleanup ticker firing again
\* and again, every entry inserted into the map is eventually out of the map
\* once the clock passes its ExpiresAt, whether it is requested or not; and
\* an expired entry is absent after the first sweep that starts after its
\* expiry and after the first retrieval of its token that checks it after
\* its expiry, whichever comes first.
SelfCleaning == EventuallyRemoved /\ [][SweepCleans /\ RetrievalCleans]_vars

\* C19 witness: the one store made has expired and its token is gone while
\* the store's answer is still the last answer, so no retrieval has answered
\* since the upload: the sweep removed the entry unrequested
SelfCleaningWitness ==
    /\ cleanupOn
    /\ Len(stores) = 1
    /\ out.from = "fax" /\ out.status = 200
    /\ \A p \in Getters : get[p] = IdleGet
    /\ now > stores[1].at + FileTTL
    /\ stores[1].token \notin DOMAIN uploadedFiles

\* two cookies of two dots or more with the same token part and the same
\* signature part
SameCredential(c, d) ==
    /\ c # None /\ d # None
    /\ Cardinality(Dots(c)) >= 2 /\ Cardinality(Dots(d)) >= 2
    /\ TokenPart(c) = TokenPart(d)
    /\ SignaturePart(c) = SignaturePart(d)

\* what follows the second dot of a cookie
LabelPart(c) == SubSeq(c, SecondDot(c) + 1, Len(c))

\* the answer to a cookie that has a third part is decided by the token
\* part, the signature part and the server's secret
DecidedBySignature ==
    (out.from \in Gated /\ out.cookie # None /\ Cardinality(Dots(out.cookie)) >= 2)
    => (~SentToLogin(out) <=> (~Configured \/ Verifies(out.cookie)))

\* two answers in a row to cookies that differ in the label at most agree,
\* whatever happened to the map and the clock between them
SameAnswer ==
    (out.from \in Gated /\ out'.from \in Gated /\ SameCredential(out.cookie, out'.cookie))
    => (SentToLogin(out) <=> SentToLogin(out'))

\* C20: the identity label is not covered by the signature. Two cookies
\* with the same token part and the same signature part and different
\* labels get the same decision from isAuthenticated; the decision is a
\* function of the token part, the signature part and the server's secret,
\* and not of the label, the media store or the time.
LabelNotSigned == []DecidedBySignature /\ [][SameAnswer]_vars

\* C20 witness: with a password configured, a cookie under a label the
\* server never issues was let through after the clock moved and with an
\* upload in the map
LabelNotSignedWitness ==
    /\ Configured
    /\ out.from = "route"
    /\ out.status = 200
    /\ LabelPart(out.cookie) = <<"admin">>
    /\ now > 0
    /\ uploadedFiles # EmptyMap

\* C21: the signing secret is never empty where it is used. Whenever a
\* password or a provider client id is configured, the SessionSecret that
\* setSessionCookie signs with and isAuthenticated verifies against is not
\* the empty string, in every configuration LoadConfig produces, a
\* provider-only one without SESSION_SECRET included.
SecretNeverEmpty == Configured => app.AuthConfig.SessionSecret # <<>>

\* C22: every redirect of handleLogin stays on the site. Whichever branch
\* answers (nothing configured, already authenticated, password accepted,
\* password refused), the Location begins with "/" and not with "//"; an
\* already authenticated request to /login?redirect=<target> is not sent to
\* a target that fails that test.
LoginStaysOnSite ==
    (out.from = "login" /\ out.status = 303) => SameSite(out.location)

\* C23: without a configured password no POST /login signs anyone in.
\* When only providers are configured, /login issues no session cookie
\* whatever password is submitted, an empty or missing one included, and a
\* session cookie labelled "password" exists only where the configured
\* password is non-empty.
PasswordNeedsPassword ==
    app.AuthConfig.Password = <<>> =>
        /\ out.from = "login" => out.issued = None
        /\ jar.session # None => LabelPart(jar.session) # <<"password">>

====
